---- MODULE Spec2Model ----
(***************************************************************************)
(* A model of the g4f-sdk resilience layer.                                *)
(*                                                                         *)
(*   ProviderSpec  g4f_sdk/providers.py: ProviderManager, its TTL cache of *)
(*                 working providers and the tiered _select_provider.      *)
(*   ChatSpec      ai/chat.py: ChatHandler's history, _count_length and    *)
(*                 _trim_history.                                          *)
(*   RetrySpec     g4f_sdk/utils.py: async_retry, around a plain coroutine *)
(*                 and around ChatModule._make_api_call inside             *)
(*                 ChatModule.generate (g4f_sdk/chat.py).                  *)
(*   GenerateSpec  ai/chat.py: ChatHandler.generate and _clean_response.   *)
(*   StreamSpec    ai/chat.py: ChatHandler.stream_generate.                *)
(*   RequestSpec     one handler serving generate or stream_generate.      *)
(*   LongPromptSpec  generate on a history with a long system prompt.      *)
(*   CapabilitySpec  generate with provider, web_search and images.        *)
(*   HandlersSpec    ai/chat.py: two ChatHandler sessions of one client.   *)
(*   ChatSessionSpec g4f_sdk/chat.py: ChatSession and its trimming.        *)
(*   HistorySpec     every operation that changes a history.               *)
(*   TrimSpec        _trim_history of ChatHandler and ChatSession.         *)
(*   ProfilesSpec    ai/models_info.py: the model/provider profiles.       *)
(*   TasksSpec       requests sharing a ProviderManager on the loop.       *)
(*   CleanerSpec     ChatModule.generate with use_ai_cleaner.              *)
(*   ConfiguredSpec  ChatModule.generate under a configured client.        *)
(***************************************************************************)
EXTENDS Integers, Sequences, FiniteSets, TLC

\* ------------------------------------------------------------------------
\* Bounds of the model
\* ------------------------------------------------------------------------

\* The wall clock (time.time()) runs over 0..MaxTime.
MaxTime == 3

\* The largest configured provider_cache_ttl tried (0..MaxTTL).
MaxTTL == 2

\* The longest conversation history tried.
MaxMsgs == 4

\* The largest max_length tried (-1..MaxLength).
MaxLength == 6

\* The largest `retries` argument a decorated coroutine is given.
MaxRetries == 3

\* The most requests the two sessions make together.
MaxTurns == 2

\* The requests that share one ProviderManager.
MaxTasks == 2

\* The nested calls of ChatModule.generate the interpreter's recursion
\* limit allows.
RecursionLimit == 3

\* ------------------------------------------------------------------------
\* ProviderManager: the gateway's provider catalog (environment)
\* ------------------------------------------------------------------------

\* The attributes dir(g4f.Provider) lists, in dir()'s (sorted) order.  P1..P3
\* are provider classes; "helper" is an attribute that is not a class.
CatalogNames == <<"P1", "P2", "P3", "helper">>

\* Model names a caller asks for.
Models == {"m1", "m2", "m3"}

\* Python's None / "" for the provider_hint argument: both are falsy at
\* `if provider_hint:`.
NoHint == ""

\* Provider hints a caller passes: none, a catalogued class, an unknown name.
Hints == {NoHint, "P1", "P3", "PX"}

\* The value of a provider class's `model` attribute: absent (None), one
\* model name (str), or a list of model names.
NoModels == [kind |-> "none", names |-> <<>>]

StrModel(m) == [kind |-> "str", names |-> <<m>>]

ListModels(ms) == [kind |-> "list", names |-> ms]

\* The class attribute `model` each catalogue entry declares.
Declared ==
  [n \in {"P1", "P2", "P3", "helper"} |->
     CASE n = "P1" -> StrModel("m1")
       [] n = "P2" -> ListModels(<<"m1", "m2">>)
       [] n = "P3" -> NoModels
       [] OTHER    -> StrModel("m1")]

\* isinstance(provider_class, type)
IsType(n) == n # "helper"

\* config.preferred_providers: None or a list of names (a name may be
\* unknown to the gateway).
PreferredOptions ==
  { [isNone |-> TRUE,  list |-> <<>>],
    [isNone |-> FALSE, list |-> <<>>],
    [isNone |-> FALSE, list |-> <<"P3">>],
    [isNone |-> FALSE, list |-> <<"P3", "P1">>],
    [isNone |-> FALSE, list |-> <<"PX", "P2">>] }

VARIABLES
  g4f,              \* the gateway library was importable (module-level `g4f`)
  working,          \* catalogue: name -> the attribute's `working` flag
  provider_cache_ttl,   \* config.provider_cache_ttl
  preferred_providers,  \* config.preferred_providers
  now,              \* time.time()
  providers_info,   \* ProviderManager._providers_info: name -> record
  last_fetch_time,  \* ProviderManager._last_fetch_time
  call,             \* the last ProviderManager call and its outcome
  msgs,             \* ChatHandler.msgs: the conversation history
  max_length,       \* ChatHandler.max_length
  use_char_limit,   \* ChatHandler.use_char_limit
  reduction_factor, \* config "context_reduction_factor", in tenths
  trim,             \* the last ChatHandler call and its outcome
  pc,               \* where the running request is
  attempt,          \* the `attempt` of the running retry loop
  sleeps,           \* the delays passed to asyncio.sleep, in order
  func,             \* the coroutine async_retry decorates
  retries,          \* async_retry's `retries` argument
  calls,            \* what the decorated coroutine did, per invocation
  current_delay,    \* async_retry.wrapper's current_delay
  wres,             \* how async_retry.wrapper ended
  gres,             \* how ChatModule.generate ended
  before,           \* ChatHandler.msgs when the request was made
  request,          \* the arguments of the running ChatHandler request
  sent,             \* the `messages` of every backend call, in order
  full_response_content,  \* stream_generate's accumulated text
  yielded,          \* the fragments stream_generate yielded, in order
  event,            \* what the last loop iteration met
  result,           \* what ChatHandler.generate returned
  handlers,         \* two ChatHandler sessions of one client, by name
  same_list,        \* both sessions' `msgs` are one list object
  touch,            \* the last operation on a session, and the other before
  tokenizer,        \* g4f_sdk.chat: tiktoken was importable
  session_history,  \* ChatSession.history
  max_history_tokens,   \* ChatSession.max_history_tokens
  chat,             \* the last ChatSession call and its outcome
  handler_info,     \* ChatHandler.info: the capabilities of the profile
  catalog,          \* g4f.models: name -> providers and best provider
  all_providers,    \* g4f.Provider.__all__
  _models_info_cache,   \* ai.models_info._models_info_cache
  lookup,           \* the last get_model_provider_info call and its outcome
  tasks,            \* the requests that share the ProviderManager, by number
  running,          \* the request that holds the event loop (0: none)
  config,           \* g4f_sdk Config: the retry settings and use_ai_cleaner
  nesting           \* the calls of ChatModule.generate in progress

\* What is fixed when the client is constructed.
provConfig == <<g4f, provider_cache_ttl, preferred_providers>>

provVars == <<provConfig, working, now, providers_info, last_fetch_time, call>>

chatVars == <<msgs, max_length, use_char_limit, reduction_factor, trim>>

loopVars == <<pc, attempt, sleeps>>

retryVars ==
  <<func, retries, calls, current_delay, wres, gres, config, nesting>>

handlerVars ==
  <<before, request, sent, full_response_content, yielded, event, result>>

handlersVars == <<handlers, same_list, touch>>

\* The sessions that live next to the single handler above.
chatSessionVars ==
  <<tokenizer, session_history, max_history_tokens, chat>>

profilesVars == <<catalog, all_providers, _models_info_cache, lookup>>

tasksVars == <<tasks, running>>

sessionVars ==
  <<handlersVars, chatSessionVars, handler_info, profilesVars, tasksVars>>

\* What the calls of one subsystem leave alone in the others.
requestVars == <<loopVars, retryVars, handlerVars, sessionVars>>

\* What the calls on the sessions leave alone.
coreVars ==
  <<provVars, chatVars, loopVars, retryVars, handlerVars, handler_info,
    profilesVars, tasksVars>>

vars == <<provVars, chatVars, requestVars>>

\* ------------------------------------------------------------------------
\* Small helpers
\* ------------------------------------------------------------------------

Range(s) == { s[i] : i \in 1..Len(s) }

InSeq(x, s) == \E i \in 1..Len(s) : s[i] = x

\* ------------------------------------------------------------------------
\* ProviderManager
\* ------------------------------------------------------------------------

\* Variant of _is_cache_valid: a cache whose age equals the TTL still counts
\* as valid.
_is_cache_valid_inclusive(t, last, ttlv) == t - last <= ttlv

\* _is_cache_valid: time.time() - self._last_fetch_time < ttl
_is_cache_valid(t, last, ttlv) == t - last < ttlv

\* Variant of FetchedInfo: the old entries are not cleared first.
FetchedInfo_Incremental(old, flags) ==
  LET names == { n \in Range(CatalogNames) : IsType(n) /\ flags[n] }
                 \cup DOMAIN old
  IN  [n \in names |-> [name |-> n, working |-> TRUE, models |-> Declared[n]]]

\* The dictionary _fetch_from_g4f builds after clear(): one entry per
\* attribute that is a class and whose `working` attribute is truthy.
FetchedInfo(old, flags) ==
  LET names == { n \in Range(CatalogNames) : IsType(n) /\ flags[n] }
  IN  [n \in names |-> [name |-> n, working |-> TRUE, models |-> Declared[n]]]

\* Variant of _fetch_from_g4f: the library is not looked at.
_fetch_from_g4f_unguarded(avail, old, last, flags, t) ==
  [info |-> FetchedInfo(old, flags), last |-> t, refreshed |-> TRUE]

\* _fetch_from_g4f: a no-op without the library; otherwise the cache is
\* rebuilt and stamped with the current time.
_fetch_from_g4f(avail, old, last, flags, t) ==
  IF ~avail
  THEN [info |-> old, last |-> last, refreshed |-> FALSE]
  ELSE [info |-> FetchedInfo(old, flags), last |-> t, refreshed |-> TRUE]

\* _ensure_cache
_ensure_cache(avail, old, last, flags, t, ttlv) ==
  IF ~_is_cache_valid(t, last, ttlv)
  THEN _fetch_from_g4f(avail, old, last, flags, t)
  ELSE [info |-> old, last |-> last, refreshed |-> FALSE]

\* working_providers = list(self._providers_info.keys()): insertion order
\* is dir()'s order.
working_providers(info) ==
  SelectSeq(CatalogNames, LAMBDA n : n \in DOMAIN info)

\* check_model_support
check_model_support(info, p, model) ==
  LET pm == info[p].models
  IN  CASE pm.kind = "str"  -> pm.names[1] = model
        [] pm.kind = "list" -> InSeq(model, pm.names)
        [] OTHER            -> FALSE

\* preferred = self.config.preferred_providers or []
preferred(pref) == IF pref.isNone THEN <<>> ELSE pref.list

\* Variant of candidates: the preferred working providers are taken before
\* model support is looked at.
candidates_fallback_first(info, pref, model) ==
  LET wp == working_providers(info)
      pl == preferred(pref)
      c1 == SelectSeq(pl, LAMBDA p : InSeq(p, wp))
      c2 == IF c1 = <<>>
            THEN SelectSeq(wp, LAMBDA p : check_model_support(info, p, model))
            ELSE c1
  IN  IF c2 = <<>> THEN wp ELSE c2

\* The candidate list random.choice draws from (lines 93-107); the caller
\* has established that info is not empty.
candidates(info, pref, model) ==
  LET wp == working_providers(info)
      pl == preferred(pref)
      c1 == SelectSeq(pl, LAMBDA p : InSeq(p, wp)
                                      /\ check_model_support(info, p, model))
      c2 == IF c1 = <<>>
            THEN SelectSeq(wp, LAMBDA p : check_model_support(info, p, model))
            ELSE c1
      c3 == IF c2 = <<>> /\ pl # <<>>
            THEN SelectSeq(pl, LAMBDA p : InSeq(p, wp))
            ELSE c2
  IN  IF c3 = <<>> THEN wp ELSE c3

Returned(p) == [outcome |-> "ok", provider |-> p]

ProviderError == [outcome |-> "ProviderError", provider |-> ""]

\* Variant of _select_provider: a hint is returned without looking it up in
\* the cache.
_select_provider_hint_unchecked(info, pref, model, hint) ==
  IF hint # NoHint
  THEN { Returned(hint) }
  ELSE IF working_providers(info) = <<>>
       THEN { ProviderError }
       ELSE { Returned(p) : p \in Range(candidates(info, pref, model)) }

\* Variant of _select_provider: a hint that is not cached falls through to
\* the tiered choice.
_select_provider_hint_substituted(info, pref, model, hint) ==
  IF hint # NoHint /\ hint \in DOMAIN info
  THEN { Returned(hint) }
  ELSE IF working_providers(info) = <<>>
       THEN { ProviderError }
       ELSE { Returned(p) : p \in Range(candidates(info, pref, model)) }

\* The outcomes of _select_provider on an ensured cache (lines 74-109):
\* the set random.choice may produce, or the ProviderError raised.
_select_provider(info, pref, model, hint) ==
  IF hint # NoHint
  THEN IF hint \in DOMAIN info
       THEN { Returned(hint) }
       ELSE { ProviderError }
  ELSE IF working_providers(info) = <<>>
       THEN { ProviderError }
       ELSE { Returned(p) : p \in Range(candidates(info, pref, model)) }

NoCall ==
  [op |-> "none", model |-> "", hint |-> NoHint, at |-> 0, lastBefore |-> 0,
   cachedBefore |-> {}, refreshed |-> FALSE,
   outcome |-> "none", provider |-> ""]

ProvInit ==
  /\ g4f \in BOOLEAN
  /\ working \in [Range(CatalogNames) -> BOOLEAN]
  /\ working["helper"]
  /\ provider_cache_ttl \in 0..MaxTTL
  /\ preferred_providers \in PreferredOptions
  /\ now \in 0..MaxTime
  /\ providers_info = [n \in {} |-> NoModels]
  /\ last_fetch_time = 0
  /\ call = NoCall

\* The clock advances between calls.
Tick ==
  /\ now < MaxTime
  /\ now' = now + 1
  /\ call' = NoCall
  /\ UNCHANGED <<provConfig, working, providers_info, last_fetch_time,
                 chatVars, requestVars>>

\* A provider class's `working` flag changes in the gateway.
CatalogChange ==
  \E n \in Range(CatalogNames) :
    /\ IsType(n)
    /\ working' = [working EXCEPT ![n] = ~working[n]]
    /\ call' = NoCall
    /\ UNCHANGED <<provConfig, now, providers_info, last_fetch_time,
                   chatVars, requestVars>>

\* ProviderManager._select_provider(model, provider_hint)
SelectProvider ==
  \E model \in Models, hint \in Hints :
    LET e == _ensure_cache(g4f, providers_info, last_fetch_time, working,
                           now, provider_cache_ttl)
    IN  \E o \in _select_provider(e.info, preferred_providers, model, hint) :
          /\ providers_info' = e.info
          /\ last_fetch_time' = e.last
          /\ call' = [op |-> "select", model |-> model, hint |-> hint,
                      at |-> now, lastBefore |-> last_fetch_time,
                      cachedBefore |-> DOMAIN providers_info,
                      refreshed |-> e.refreshed,
                      outcome |-> o.outcome, provider |-> o.provider]
          /\ UNCHANGED <<provConfig, working, now, chatVars, requestVars>>

\* G4FClient.get_working_providers: _ensure_cache, then the cached names.
get_working_providers ==
  LET e == _ensure_cache(g4f, providers_info, last_fetch_time, working,
                         now, provider_cache_ttl)
  IN  /\ providers_info' = e.info
      /\ last_fetch_time' = e.last
      /\ call' = [op |-> "list", model |-> "", hint |-> NoHint,
                  at |-> now, lastBefore |-> last_fetch_time,
                  cachedBefore |-> DOMAIN providers_info,
                  refreshed |-> e.refreshed,
                  outcome |-> "ok", provider |-> ""]
      /\ UNCHANGED <<provConfig, working, now, chatVars, requestVars>>

ProvNext == Tick \/ CatalogChange \/ SelectProvider \/ get_working_providers

\* ------------------------------------------------------------------------
\* ChatHandler (ai/chat.py): messages
\* ------------------------------------------------------------------------

\* A text content: len(str(content)) = chars, len(encoding.encode(content))
\* = toks.
Str(chars, toks) ==
  [kind |-> "str", chars |-> chars, toks |-> toks, items |-> <<>>]

\* A multimodal content: a list of items; chars is the length of the
\* list's str() form.
List(chars, items) ==
  [kind |-> "list", chars |-> chars, toks |-> 0, items |-> items]

TextItem(toks) == [type |-> "text", toks |-> toks]

ImageItem == [type |-> "image_url", toks |-> 0]

SystemMsg == [role |-> "system", content |-> Str(2, 1)]

UserMsg == [role |-> "user", content |-> Str(3, 2)]

EmptyMsg == [role |-> "assistant", content |-> Str(0, 0)]

VisionMsg ==
  [role |-> "user", content |-> List(5, <<TextItem(1), ImageItem>>)]

\* The messages histories are built from.
Palette == {SystemMsg, UserMsg, EmptyMsg, VisionMsg}

\* The histories a session is seeded with (ChatHandler.__init__'s context).
Histories == UNION { [1..n -> Palette] : n \in 0..MaxMsgs }

\* context_reduction_factor values, in tenths: 0.5, 0.7 (the default), 1.0
\* and 2.5.
Factors == {5, 7, 10, 25}

\* self.encoding: ChatHandler and _BaseHandler never assign it, so reading
\* it raises AttributeError ("unset"); the code reads it as None ("none")
\* or as a tiktoken encoding ("tiktoken").
Encoding == "unset"

\* Python's int() of a quotient a / b (b > 0): truncation toward zero.
TruncDiv(a, b) == IF a >= 0 THEN a \div b ELSE -((-a) \div b)

RECURSIVE SumChars(_)
SumChars(messages) ==
  IF messages = <<>> THEN 0
  ELSE Head(messages).content.chars + SumChars(Tail(messages))

RECURSIVE SumItemTokens(_)
SumItemTokens(items) ==
  IF items = <<>> THEN 0
  ELSE (IF Head(items).type = "text" THEN Head(items).toks ELSE 0)
       + SumItemTokens(Tail(items))

ContentTokens(content) ==
  CASE content.kind = "str"  -> content.toks
    [] content.kind = "list" -> SumItemTokens(content.items)
    [] OTHER                 -> 0

RECURSIVE SumTokens(_)
SumTokens(messages) ==
  IF messages = <<>> THEN 0
  ELSE ContentTokens(Head(messages).content) + SumTokens(Tail(messages))

Measured(n) == [raised |-> FALSE, size |-> n]

AttributeError == [raised |-> TRUE, size |-> 0]

\* _count_length(messages)
_count_length(messages, charMode, enc) ==
  IF charMode THEN Measured(SumChars(messages))
  ELSE IF enc = "unset" THEN AttributeError
  ELSE IF enc = "tiktoken" THEN Measured(SumTokens(messages))
  ELSE Measured(SumChars(messages))

\* Variant of LastN: one message too many is kept.
LastN_OneMore(s, n) ==
  IF n + 1 >= Len(s) THEN s ELSE SubSeq(s, Len(s) - n, Len(s))

\* other_msgs[-n:] for n >= 1
LastN(s, n) ==
  IF n >= Len(s) THEN s ELSE SubSeq(s, Len(s) - n + 1, Len(s))

\* Variant of DropOldest: pop() instead of pop(0).
RECURSIVE DropNewest(_, _, _, _, _)
DropNewest(sys, other, target, charMode, enc) ==
  IF other # <<>> /\ _count_length(sys \o other, charMode, enc).size > target
  THEN DropNewest(sys, SubSeq(other, 1, Len(other) - 1), target, charMode, enc)
  ELSE other

\* while _count_length(system + other_msgs) > target and other_msgs:
\*   other_msgs.pop(0)
RECURSIVE DropOldest(_, _, _, _, _)
DropOldest(sys, other, target, charMode, enc) ==
  IF other # <<>> /\ _count_length(sys \o other, charMode, enc).size > target
  THEN DropOldest(sys, Tail(other), target, charMode, enc)
  ELSE other

\* Variant of TrimVerdict: success is reported whatever is left.
TrimVerdict_AlwaysTrue(messages, maxLen, charMode, enc) == "True"

\* The final `return self._count_length(self.msgs) <= self.max_length`
TrimVerdict(messages, maxLen, charMode, enc) ==
  IF _count_length(messages, charMode, enc).size <= maxLen
  THEN "True" ELSE "False"

\* Variant of system_prompt: no message is set aside.
system_prompt_none(messages) == <<>>

\* The system prompt _trim_history sets aside: msgs[0] when its role is
\* "system" (as a list of one), else nothing.
system_prompt(messages) ==
  IF messages # <<>> /\ messages[1].role = "system"
  THEN <<messages[1]>> ELSE <<>>

\* Variant of _trim_history: it trims without looking whether the history
\* fits.
_trim_history_eager(messages, maxLen, factor, charMode, enc) ==
  IF _count_length(messages, charMode, enc).raised
  THEN [msgs |-> messages, result |-> "raised"]
  ELSE
    LET sys   == system_prompt(messages)
        other == SubSeq(messages, Len(sys) + 1, Len(messages))
        kept  == IF factor >= 10
                 THEN LastN(other, TruncDiv(factor, 10))
                 ELSE DropOldest(sys, other, TruncDiv(maxLen * factor, 10),
                                 charMode, enc)
    IN  [msgs |-> sys \o kept,
         result |-> TrimVerdict(sys \o kept, maxLen, charMode, enc)]

\* _trim_history: the history it leaves and what it returns ("True",
\* "False") or that it raised.
_trim_history(messages, maxLen, factor, charMode, enc) ==
  IF _count_length(messages, charMode, enc).raised
  THEN [msgs |-> messages, result |-> "raised"]
  ELSE IF _count_length(messages, charMode, enc).size <= maxLen
  THEN [msgs |-> messages, result |-> "True"]
  ELSE
    LET sys   == system_prompt(messages)
        other == SubSeq(messages, Len(sys) + 1, Len(messages))
        kept  == IF factor >= 10
                 THEN LastN(other, TruncDiv(factor, 10))
                 ELSE DropOldest(sys, other, TruncDiv(maxLen * factor, 10),
                                 charMode, enc)
    IN  [msgs |-> sys \o kept,
         result |-> TrimVerdict(sys \o kept, maxLen, charMode, enc)]

\* Whether _trim_history assigns a new list to self.msgs: it does unless
\* it returns (or raises) at its first measurement.
rebinds(messages, maxLen, charMode, enc) ==
  /\ ~_count_length(messages, charMode, enc).raised
  /\ _count_length(messages, charMode, enc).size > maxLen

\* What _trim_history leaves in the list object that was self.msgs when it
\* began.  Without a system message `other_msgs` is that very list, so the
\* loop's pop(0) empties it too; other_msgs[-n:] and self.msgs[1:] are
\* copies.
list_after_trim(messages, maxLen, factor, charMode, enc) ==
  IF /\ rebinds(messages, maxLen, charMode, enc)
     /\ system_prompt(messages) = <<>>
     /\ factor < 10
  THEN DropOldest(<<>>, messages, TruncDiv(maxLen * factor, 10),
                  charMode, enc)
  ELSE messages

NoTrim == [op |-> "none", before |-> <<>>, result |-> "none"]

\* An exception: its class and the invocation of the decorated coroutine
\* that raised it (0: raised before any invocation).
Exc(kind, n) == [kind |-> kind, at |-> n]

NoExc == Exc("none", 0)

\* How a coroutine ended: not yet, `return` of the value the n-th
\* invocation produced, `return None`, or `raise`.
NoResult ==
  [status |-> "none", kind |-> "", at |-> 0, last_exception |-> NoExc]

Value(n) ==
  [status |-> "returned", kind |-> "value", at |-> n, last_exception |-> NoExc]

Absent ==
  [status |-> "returned", kind |-> "None", at |-> 0, last_exception |-> NoExc]

Raised(e) ==
  [status |-> "raised", kind |-> e.kind, at |-> e.at, last_exception |-> NoExc]

NoRequest == [op |-> "none"]

NoEvent == [kind |-> "no iteration"]

\* g4f_sdk Config as constructed without arguments: retries,
\* retry_delay, retry_backoff_factor, use_ai_cleaner.
Config(r, d, b, cleaner) ==
  [retries |-> r, retry_delay |-> d, retry_backoff_factor |-> b,
   use_ai_cleaner |-> cleaner]

DefaultConfig == Config(3, 2, 2, FALSE)

\* No retry loop is running.
LoopIdle ==
  /\ pc = "idle"
  /\ attempt = 0
  /\ sleeps = <<>>

\* No decorated coroutine has been called.
RetryIdle ==
  /\ func = "func"
  /\ retries = 0
  /\ calls = <<>>
  /\ current_delay = 0
  /\ wres = NoResult
  /\ gres = NoResult
  /\ config = DefaultConfig
  /\ nesting = 0

\* No ChatHandler request has been made.
HandlerIdle ==
  /\ before = <<>>
  /\ request = NoRequest
  /\ sent = <<>>
  /\ full_response_content = <<>>
  /\ yielded = <<>>
  /\ event = NoEvent
  /\ result = NoResult

NoTouch == [on |-> "none"]

NoChat == [op |-> "none"]

\* No ChatSession has been created.
ChatSessionIdle ==
  /\ tokenizer = FALSE
  /\ session_history = <<>>
  /\ max_history_tokens = 0
  /\ chat = NoChat

\* No pair of ChatHandler sessions has been created.
HandlersIdle ==
  /\ handlers = <<>>
  /\ same_list = FALSE
  /\ touch = NoTouch

\* The capabilities in a profile: 'supports_web_search', 'supports_vision'.
Capabilities(web, vision) ==
  [supports_web_search |-> web, supports_vision |-> vision]

\* GENERIC_DEFAULTS: both are True.
GenericCapabilities == Capabilities(TRUE, TRUE)

NoLookup == [op |-> "none"]

\* _models_info_cache = None
NoCache == [filled |-> FALSE]

\* ai.models_info has not been used.
ProfilesIdle ==
  /\ catalog = <<>>
  /\ all_providers = <<>>
  /\ _models_info_cache = NoCache
  /\ lookup = NoLookup

\* No request shares the ProviderManager with another.
TasksIdle ==
  /\ tasks = <<>>
  /\ running = 0

SessionsIdle ==
  /\ HandlersIdle /\ ChatSessionIdle /\ ProfilesIdle /\ TasksIdle
  /\ handler_info = GenericCapabilities

ChatIdle ==
  /\ msgs = <<>>
  /\ max_length = 0
  /\ use_char_limit = FALSE
  /\ reduction_factor = 7
  /\ trim = NoTrim

ProvIdle ==
  /\ g4f = FALSE
  /\ working = [n \in Range(CatalogNames) |-> FALSE]
  /\ provider_cache_ttl = 0
  /\ preferred_providers = [isNone |-> TRUE, list |-> <<>>]
  /\ now = 0
  /\ providers_info = [n \in {} |-> NoModels]
  /\ last_fetch_time = 0
  /\ call = NoCall

\* A handler as constructed: a seeded history, the profile's max_length (or
\* the one an earlier request's provider-limit adaptation left, which may
\* be below 0), and the unit chosen from the provider's name.
ChatInit ==
  /\ msgs \in Histories
  /\ max_length \in (-1)..MaxLength
  /\ use_char_limit \in BOOLEAN
  /\ reduction_factor \in Factors
  /\ trim = NoTrim
  /\ ProvIdle
  /\ LoopIdle /\ RetryIdle /\ HandlerIdle /\ SessionsIdle

\* ChatHandler._trim_history()
TrimHistoryCall ==
  LET r == _trim_history(msgs, max_length, reduction_factor,
                         use_char_limit, Encoding)
  IN  /\ msgs' = r.msgs
      /\ trim' = [op |-> "trim", before |-> msgs, result |-> r.result]
      /\ UNCHANGED <<max_length, use_char_limit, reduction_factor, provVars,
                   requestVars>>

\* ChatHandler.clear_context(keep_system_prompt)
clear_context ==
  \E keep \in BOOLEAN :
    /\ msgs' = IF keep /\ msgs # <<>> /\ msgs[1].role = "system"
               THEN <<msgs[1]>> ELSE <<>>
    /\ trim' = [op |-> "clear", before |-> <<>>, result |-> "none"]
    /\ UNCHANGED <<max_length, use_char_limit, reduction_factor, provVars,
                   requestVars>>

ChatNext == TrimHistoryCall \/ clear_context

ChatSpec == ChatInit /\ [][ChatNext]_vars

ProviderInit ==
  ProvInit /\ ChatIdle /\ LoopIdle /\ RetryIdle /\ HandlerIdle /\ SessionsIdle

ProviderSpec == ProviderInit /\ [][ProvNext]_vars

\* ------------------------------------------------------------------------
\* async_retry (g4f_sdk/utils.py) and ChatModule (g4f_sdk/chat.py)
\* ------------------------------------------------------------------------

\* async_retry's default `delay` and `backoff_factor` (seconds, a factor).
delay == 2

backoff_factor == 2

\* The `retries` ChatModule._make_api_call is decorated with.
ChatRetries == 3

\* The exception classes async_retry retries on (its default, and the
\* tuple ChatModule passes).
retryable_exceptions ==
  {"RateLimitError", "InvalidResponseError", "TimeoutError"}

\* What one invocation of a plain decorated coroutine does: it returns, or
\* raises one of these classes.
FuncOutcomes == {"ok"} \cup retryable_exceptions \cup {"ProviderError"}

\* What g4f.ChatCompletion.create_async does in one call: a non-empty
\* string; None, "" or a non-string; an exception whose text contains
\* "rate limit"; asyncio.TimeoutError; another exception.
BackendOutcomes == {"text", "empty", "rate limit", "timeout", "error"}

\* The body of ChatModule._make_api_call.  The InvalidResponseError of an
\* empty response is raised inside the `try`, so `except Exception`
\* receives it like every exception of the backend, and re-raises
\* RateLimitError when the text contains "rate limit", else ProviderError.
_make_api_call(response) ==
  CASE response = "text"       -> "ok"
    [] response = "rate limit" -> "RateLimitError"
    [] OTHER                   -> "ProviderError"

\* What the invocation that did `o` gives async_retry.wrapper.
Outcome(f, o) == IF f = "_make_api_call" THEN _make_api_call(o) ELSE o

\* Variant of Attempts: the loop runs range(retries - 1).
Attempts_TwoFewer(r) == r - 1

\* for attempt in range(retries + 1)
Attempts(r) == r + 1

\* Variant of IsRetryable: `except Exception` retries everything.
IsRetryable_Any(kind) == TRUE

\* except retryable_exceptions as e
IsRetryable(kind) == kind \in retryable_exceptions

\* Variant of next_delay: the delay grows by a constant.
next_delay_additive(d) == d + backoff_factor

\* current_delay *= backoff_factor
next_delay(d) == d * backoff_factor

\* Variant of APIError: the caught exception is re-raised as it is.
APIError_Unwrapped(e) == Raised(e)

\* raise APIError("Failed to get a response after all retries.",
\*                last_exception)
APIError(e) ==
  [status |-> "raised", kind |-> "APIError", at |-> 0, last_exception |-> e]

\* ChatModule.generate after `await self._make_api_call(...)`: the text is
\* returned (use_ai_cleaner is False by default), an exception is wrapped.
generate_end(w) ==
  IF w.status = "raised" THEN APIError(Exc(w.kind, w.at)) ELSE w

\* A decorated coroutine and its `retries`, or a G4FClient whose provider
\* cache is still empty and stale.
RetryInit ==
  /\ func \in {"func", "_make_api_call"}
  /\ retries \in IF func = "func" THEN 0..MaxRetries ELSE {ChatRetries}
  /\ calls = <<>>
  /\ current_delay = 0
  /\ wres = NoResult
  /\ gres = NoResult
  /\ config = DefaultConfig
  /\ nesting = 0
  /\ LoopIdle
  /\ g4f \in IF func = "func" THEN {FALSE} ELSE BOOLEAN
  /\ working \in
       IF func = "func" \/ ~g4f
       THEN {[n \in Range(CatalogNames) |-> FALSE]}
       ELSE {[n \in Range(CatalogNames) |-> n = "helper"],
             [n \in Range(CatalogNames) |-> n \in {"P2", "helper"}]}
  /\ provider_cache_ttl = 1
  /\ preferred_providers = [isNone |-> TRUE, list |-> <<>>]
  /\ now = MaxTime
  /\ providers_info = [n \in {} |-> NoModels]
  /\ last_fetch_time = 0
  /\ call = NoCall
  /\ ChatIdle
  /\ HandlerIdle /\ SessionsIdle

\* A call of the decorated coroutine enters async_retry.wrapper.
decorated_call ==
  /\ pc = "idle"
  /\ func = "func"
  /\ pc' = "wrapper"
  /\ current_delay' = delay
  /\ UNCHANGED <<attempt, sleeps, func, retries, calls, wres, gres,
                 config, nesting, provVars, chatVars, handlerVars,
                 sessionVars>>

\* ChatModule.generate(messages, model, provider), up to the call of
\* self._make_api_call.
ChatModule_generate ==
  /\ pc = "idle"
  /\ func = "_make_api_call"
  /\ IF ~g4f
     THEN /\ gres' = Raised(Exc("ImportError", 0))
          /\ pc' = "done"
          /\ UNCHANGED <<current_delay, provVars>>
     ELSE \E model \in Models, hint \in {NoHint, "P2", "PX"} :
            LET e == _ensure_cache(g4f, providers_info, last_fetch_time,
                                   working, now, provider_cache_ttl)
            IN  \E o \in _select_provider(e.info, preferred_providers,
                                          model, hint) :
                  /\ providers_info' = e.info
                  /\ last_fetch_time' = e.last
                  /\ IF o.outcome = "ok"
                     THEN /\ pc' = "wrapper"
                          /\ current_delay' = delay
                          /\ gres' = gres
                     ELSE /\ pc' = "done"
                          /\ current_delay' = current_delay
                          /\ gres' = APIError(Exc(o.outcome, 0))
                  /\ UNCHANGED <<provConfig, working, now, call>>
  /\ UNCHANGED <<attempt, sleeps, func, retries, calls, wres, config,
                 nesting, chatVars, handlerVars, sessionVars>>

\* One iteration of async_retry.wrapper's loop: the coroutine is invoked;
\* its value is returned, its exception is raised, or the wrapper sleeps
\* and goes round.  When the coroutine is _make_api_call, ChatModule.generate
\* goes on from the wrapper's end.
wrapper ==
  /\ pc = "wrapper"
  /\ IF attempt >= Attempts(retries)
     THEN /\ wres' = Absent
          /\ pc' = "done"
          /\ UNCHANGED <<attempt, sleeps, calls, current_delay>>
     ELSE \E o \in IF func = "func" THEN FuncOutcomes ELSE BackendOutcomes :
            LET n    == Len(calls) + 1
                kind == Outcome(func, o)
            IN  /\ calls' = Append(calls, o)
                /\ IF kind = "ok"
                   THEN /\ wres' = Value(n)
                        /\ pc' = "done"
                        /\ UNCHANGED <<attempt, sleeps, current_delay>>
                   ELSE IF IsRetryable(kind) /\ attempt # retries
                   THEN /\ sleeps' = Append(sleeps, current_delay)
                        /\ current_delay' = next_delay(current_delay)
                        /\ attempt' = attempt + 1
                        /\ UNCHANGED <<wres, pc>>
                   ELSE /\ wres' = Raised(Exc(kind, n))
                        /\ pc' = "done"
                        /\ UNCHANGED <<attempt, sleeps, current_delay>>
  /\ gres' = IF func = "_make_api_call" /\ pc' = "done"
             THEN generate_end(wres') ELSE gres
  /\ UNCHANGED <<func, retries, config, nesting, provVars, chatVars,
                 handlerVars, sessionVars>>

RetryNext == decorated_call \/ ChatModule_generate \/ wrapper

RetrySpec == RetryInit /\ [][RetryNext]_vars

\* ------------------------------------------------------------------------
\* ChatHandler.generate and _clean_response (ai/chat.py)
\* ------------------------------------------------------------------------

\* config "max_retries" (its default).
max_retries == 3

\* asyncio.sleep(2) between two attempts.
RetrySleep == 2

\* Variant of ShrinkTenths: a failed trim raises max_length by a fifth.
ShrinkTenths_Grows == 10 + 2

\* self.max_length = int(self.max_length * 0.8), in tenths.
ShrinkTenths == 8

\* if self.max_length < 500: return None
MinLength == 500

\* self.max_length = provider_max - 500
Margin == 500

\* The length of a fragment of text, in characters.
FragLen(f) == IF f = "big" THEN 700 ELSE 1

RECURSIVE Weight(_)
Weight(body) ==
  IF body = <<>> THEN 0 ELSE FragLen(Head(body)) + Weight(Tail(body))

\* A string: the fragments it is made of, in order, and `pad` characters of
\* whitespace around them.
Text(body, pad) ==
  [kind |-> "str", chars |-> Weight(body) + pad, toks |-> Len(body),
   items |-> <<>>, body |-> body, pad |-> pad]

\* str.strip()
strip(t) == Text(t.body, 0)

User(content) == [role |-> "user", content |-> content]

Assistant(content) == [role |-> "assistant", content |-> content]

BigMsg == [role |-> "user", content |-> Str(700, 150)]

\* The histories the handlers of GenerateSpec and StreamSpec start with.
Seeds ==
  { <<>>,
    <<SystemMsg, UserMsg, EmptyMsg>>,
    <<BigMsg>>,
    <<SystemMsg, BigMsg, UserMsg>> }

\* Their max_length.
Lengths == {-1, MaxLength, 650, 1000}

\* The text of a backend exception: whether it holds "maximum context
\* length" or "exceeds maximum length", the numbers it holds right before
\* "tokens", in order, and the limit it states (0: none).
ErrorText(signature, tokens, limit) ==
  [kind |-> "error", signature |-> signature, tokens |-> tokens,
   limit |-> limit]

\* "... maximum context length of L tokens ..."
Oversize(L) == ErrorText(TRUE, <<L>>, L)

\* What one call of async_client.chat.completions.create under wait_for
\* does for generate: a response with content, one without, a timeout, an
\* exception.
CompletionOutcomes ==
  { [kind |-> "content", content |-> Text(<<"r">>, 0)],
    [kind |-> "content", content |-> Text(<<"r", "ad">>, 1)],
    [kind |-> "empty"],
    [kind |-> "timeout"],
    Oversize(400), Oversize(1200),
    ErrorText(TRUE, <<>>, 0), ErrorText(FALSE, <<>>, 0) }

\* What the secondary call of _clean_response gives: an exception; content
\* that is not JSON; JSON that is not an object; an object, with has_ad
\* true, false or absent and cleaned_text a string, absent or no string.
Judgment(has_ad, cleaned_text) ==
  [kind |-> "object", has_ad |-> has_ad, cleaned_text |-> cleaned_text]

Judgments ==
  { [kind |-> "raises"], [kind |-> "notjson"], [kind |-> "nonobject"],
    Judgment("true", "text"), Judgment("true", "absent"),
    Judgment("true", "nonstring"), Judgment("false", "text"),
    Judgment("absent", "text") }

\* The cleaned_text of a judgment that has one.
CleanedText == Text(<<"r">>, 1)

\* Variant of _clean_response: cleaned_text is taken whatever has_ad says.
_clean_response_any_judgment(response_content, j) ==
  IF j.kind = "object" /\ j.cleaned_text = "text"
  THEN strip(CleanedText) ELSE strip(response_content)

\* _clean_response(response_content): every exception (of the call, of
\* json.loads, AttributeError of .get or .strip on what is no dict or no
\* string) ends in `return response_content.strip()`.
_clean_response(response_content, j) ==
  IF j.kind = "object" /\ j.has_ad = "true" /\ j.cleaned_text = "text"
  THEN strip(CleanedText) ELSE strip(response_content)

\* Variant of Disposition: an empty response is retried after a sleep.
Disposition_EmptyRetried(o) ==
  CASE o.kind = "content" -> "return"
    [] o.kind = "error"   -> IF o.signature /\ o.tokens # <<>>
                             THEN "adapt" ELSE "sleep"
    [] OTHER              -> "sleep"

\* What generate does with the outcome of a backend call: return the
\* content, return None, adapt max_length and `continue`, or log and sleep.
Disposition(o) ==
  CASE o.kind = "content" -> "return"
    [] o.kind = "empty"   -> "none"
    [] o.kind = "timeout" -> "sleep"
    [] o.kind = "error"   -> IF o.signature /\ o.tokens # <<>>
                             THEN "adapt" ELSE "sleep"

\* provider_max = int(re.search(r'(\d+)\s*tokens', error_str).group(1))
provider_max(o) == o.tokens[1]

ReturnedContent(c) == [status |-> "returned", kind |-> "content", content |-> c]

\* A handler as constructed, with a seeded history.
HandlerMade ==
  /\ msgs \in Seeds
  /\ max_length \in Lengths
  /\ use_char_limit \in BOOLEAN
  /\ reduction_factor \in {7, 25}
  /\ trim = NoTrim
  /\ ProvIdle
  /\ LoopIdle /\ RetryIdle /\ HandlerIdle
  /\ HandlersIdle /\ ChatSessionIdle /\ ProfilesIdle /\ TasksIdle

\* ... for a model and provider whose profile has the generic capabilities.
HandlerInit == HandlerMade /\ handler_info = GenericCapabilities

\* Variant of SleepAfter: the last attempt is followed by a sleep too.
SleepAfter_Always(a) == <<RetrySleep>>

\* What an iteration that neither returned nor `continue`d goes on with:
\* `if attempt < max_retries - 1: await asyncio.sleep(2)`.
SleepAfter(a) == IF a < max_retries - 1 THEN <<RetrySleep>> ELSE <<>>

\* A user message with an "images" entry.
UserWithImages(content) ==
  [role |-> "user", content |-> content, images |-> TRUE]

\* The `provider` argument: None or the provider in use; one that
\* get_model_provider_info resolves to a profile, from which
\* _update_model_info takes info, max_length and use_char_limit; one for
\* which it raises.
NoOverride == [kind |-> "none"]

Resolution(caps, maxLen, charMode) ==
  [kind |-> "profile", info |-> caps, max_length |-> maxLen,
   use_char_limit |-> charMode]

Overrides ==
  { NoOverride, [kind |-> "raises"],
    Resolution(Capabilities(FALSE, TRUE), 1000, FALSE),
    Resolution(Capabilities(TRUE, FALSE), 650, TRUE) }

\* Variant of effective_web_search: the flag is passed on as asked.
web_search_as_asked(web_search, caps) == web_search

\* if web_search and not self.info.get('supports_web_search'):
\*   web_search = False
effective_web_search(web_search, caps) ==
  web_search /\ caps.supports_web_search

\* if images and not self.info.get('supports_vision'): images = None
effective_images(images, caps) == images /\ caps.supports_vision

\* ChatHandler.generate(msg, provider=..., web_search=..., images=...,
\* clean_ad=...), up to the loop: the profile is resolved again for another
\* provider, what it does not support is switched off, the user message is
\* appended and g4f_kwargs["messages"] bound to the list.
generate_call(providers, searches, image_lists) ==
  /\ pc = "idle"
  /\ \E msg \in {Text(<<>>, 0), Text(<<"q">>, 0), Text(<<"big">>, 0)},
        clean_ad \in BOOLEAN, provider \in providers,
        web_search \in searches, images \in image_lists :
       LET caps == IF provider.kind = "profile"
                   THEN provider.info ELSE handler_info
           user == IF effective_images(images, caps)
                   THEN UserWithImages(msg) ELSE User(msg)
           history == IF msg.chars > 0 /\ provider.kind # "raises"
                      THEN Append(msgs, user) ELSE msgs
       IN  /\ msgs' = history
           /\ request' =
                [op |-> "generate", msg |-> msg, clean_ad |-> clean_ad,
                 messages |-> history,
                 g4f_messages |-> history, aliased |-> TRUE,
                 resolved |-> provider.kind # "raises",
                 asked |-> [web_search |-> web_search, images |-> images],
                 web_search |-> effective_web_search(web_search, caps)]
           /\ before' = msgs
           /\ handler_info' = caps
           /\ max_length' = IF provider.kind = "profile"
                            THEN provider.max_length ELSE max_length
           /\ use_char_limit' = IF provider.kind = "profile"
                                THEN provider.use_char_limit
                                ELSE use_char_limit
           /\ pc' = IF provider.kind = "raises" THEN "done" ELSE "generate"
           /\ result' = IF provider.kind = "raises"
                        THEN Raised(Exc("AttributeError", 0)) ELSE result
  /\ UNCHANGED <<attempt, sleeps, reduction_factor, trim, sent,
                 full_response_content, yielded, event, provVars, retryVars,
                 handlersVars, chatSessionVars, profilesVars, tasksVars>>

\* generate(msg, clean_ad=...): no provider, web_search or images.
generate == generate_call({NoOverride}, {FALSE}, {FALSE})

\* generate with any of its arguments.
generate_options == generate_call(Overrides, BOOLEAN, BOOLEAN)

\* Variant of next_attempt: adapting max_length takes no attempt.
next_attempt_adapting_free(a, kind) ==
  IF kind \in {"adapt", "trim_failed"} THEN a ELSE a + 1

\* `for attempt in range(max_retries)`: the value the loop goes on with
\* after an iteration that ended in `continue` or ran to its end, whatever
\* the iteration met.
next_attempt(a, kind) == a + 1

\* One iteration of generate's `for attempt in range(max_retries)`, with
\* the `return None` after the loop when it was the last one.
generate_attempt ==
  /\ pc = "generate"
  /\ LET t == _trim_history(msgs, max_length, reduction_factor,
                            use_char_limit, Encoding)
         ev == [kind |-> "none", attempt |-> attempt, slept |-> FALSE,
                max_before |-> max_length, history |-> t.msgs,
                called |-> FALSE]
         over(k) == next_attempt(attempt, k) >= max_retries
         handed == IF request.aliased
                   THEN list_after_trim(msgs, max_length, reduction_factor,
                                        use_char_limit, Encoding)
                   ELSE request.g4f_messages
         aliased == /\ request.aliased
                    /\ ~rebinds(msgs, max_length, use_char_limit, Encoding)
     IN  /\ CASE t.result = "False" ->
                   LET shrunk == TruncDiv(max_length * ShrinkTenths, 10)
                   IN  /\ msgs' = t.msgs
                       /\ max_length' = shrunk
                       /\ event' = [ev EXCEPT !.kind = "trim_failed"]
                       /\ pc' = IF shrunk < MinLength \/ over("trim_failed")
                                THEN "done" ELSE pc
                       /\ result' = IF shrunk < MinLength
                                       \/ over("trim_failed")
                                    THEN Absent ELSE result
                       /\ attempt' = IF shrunk < MinLength
                                     THEN attempt
                                     ELSE next_attempt(attempt, "trim_failed")
                       /\ UNCHANGED <<sleeps, sent>>
               [] t.result = "raised" ->
                   /\ event' = [ev EXCEPT !.kind = "trim_raised",
                                          !.slept = SleepAfter(attempt) # <<>>]
                   /\ sleeps' = sleeps \o SleepAfter(attempt)
                   /\ attempt' = next_attempt(attempt, "trim_raised")
                   /\ pc' = IF over("trim_raised") THEN "done" ELSE pc
                   /\ result' = IF over("trim_raised") THEN Absent ELSE result
                   /\ UNCHANGED <<msgs, max_length, sent>>
               [] t.result = "True" ->
                   \E o \in CompletionOutcomes, j \in Judgments :
                     LET d == Disposition(o)
                         content == IF request.clean_ad
                                    THEN _clean_response(o.content, j)
                                    ELSE o.content
                     IN  /\ sent' = Append(sent, [messages |-> handed,
                                                  had |-> <<>>, ended |-> d,
                                                  web_search |->
                                                    request.web_search])
                         /\ event' =
                              [ev EXCEPT
                                 !.kind = d, !.called = TRUE,
                                 !.slept = d = "sleep"
                                           /\ SleepAfter(attempt) # <<>>]
                              @@ [outcome |-> o,
                                  judgment |->
                                    IF d = "return" /\ request.clean_ad
                                    THEN j ELSE [kind |-> "none"]]
                         /\ msgs' = IF d = "return"
                                    THEN Append(t.msgs, Assistant(content))
                                    ELSE t.msgs
                         /\ max_length' = IF d = "adapt"
                                          THEN provider_max(o) - Margin
                                          ELSE max_length
                         /\ sleeps' = IF d = "sleep"
                                      THEN sleeps \o SleepAfter(attempt)
                                      ELSE sleeps
                         /\ attempt' = IF d \in {"adapt", "sleep"}
                                       THEN next_attempt(attempt, d)
                                       ELSE attempt
                         /\ pc' = IF d \in {"return", "none"} \/ over(d)
                                  THEN "done" ELSE pc
                         /\ result' =
                              CASE d = "return" -> ReturnedContent(content)
                                [] d = "none" \/ over(d) -> Absent
                                [] OTHER -> result
         /\ request' = [request EXCEPT
                          !.aliased = aliased,
                          !.g4f_messages = IF aliased THEN msgs' ELSE handed]
  /\ UNCHANGED <<use_char_limit, reduction_factor, trim, before,
                 full_response_content, yielded, provVars, retryVars,
                 sessionVars>>

GenerateNext == generate \/ generate_attempt

GenerateSpec == HandlerInit /\ [][GenerateNext]_vars

\* A handler whose profile has any capabilities, and generate with any of
\* its arguments.
CapabilityInit ==
  /\ HandlerMade
  /\ handler_info \in {Capabilities(w, v) : w \in BOOLEAN, v \in BOOLEAN}

CapabilityNext == generate_options \/ generate_attempt

CapabilitySpec == CapabilityInit /\ [][CapabilityNext]_vars

\* ------------------------------------------------------------------------
\* ChatHandler.stream_generate (ai/chat.py)
\* ------------------------------------------------------------------------

\* "[CONTINUE THE RESPONSE WITHOUT REPEATING THE PREVIOUS TEXT]"
Continue == Text(<<"continue">>, 0)

\* Variant of temp_history: a retry leaves out the text yielded so far.
temp_history_no_partial(history, original_msg, full) ==
  IF full # <<>>
  THEN history \o <<User(original_msg), User(Continue)>>
  ELSE Append(history, User(original_msg))

\* The context an attempt prepares: a copy of the history, then, when text
\* was received already, the request, that text as an assistant message
\* and the continuation instruction, else the request.
temp_history(history, original_msg, full) ==
  IF full # <<>>
  THEN history \o <<User(original_msg), Assistant(Text(full, 0)),
                    User(Continue)>>
  ELSE Append(history, User(original_msg))

\* Variant of Accumulate: the text of the last attempt replaces the rest.
Accumulate_Replace(full, chunks) == chunks

\* full_response_content += new_chunk, for the chunks of one attempt
Accumulate(full, chunks) == full \o chunks

\* What one attempt's stream does: the chunks with content it delivers,
\* and how it ends (exhausted, or with an exception or a timeout, which
\* create() may raise before any chunk).
StreamOutcomes ==
  { [chunks |-> c, ending |-> e] :
      c \in {<<>>, <<"a">>, <<"a", "b">>},
      e \in {"complete", "error", "timeout"} }

\* How the generator ended: the exchange was committed to the history,
\* trimming failed, or the attempts ran out.
StreamEnd(how) == [status |-> "returned", kind |-> how]

\* ChatHandler.stream_generate(msg), up to the loop.
stream_generate ==
  /\ pc = "idle"
  /\ \E msg \in {Text(<<"q">>, 0), Text(<<"big">>, 0)} :
       request' = [op |-> "stream", msg |-> msg]
  /\ before' = msgs
  /\ pc' = "stream"
  /\ UNCHANGED <<attempt, sleeps, chatVars, sent, full_response_content,
                 yielded, event, result, provVars, retryVars,
                 sessionVars>>

\* One iteration of stream_generate's loop, every chunk of its stream
\* included, with the `return` after the loop when it was the last one.
stream_attempt ==
  /\ pc = "stream"
  /\ LET temp == temp_history(msgs, request.msg, full_response_content)
         t    == _trim_history(temp, max_length, reduction_factor,
                               use_char_limit, Encoding)
         ev   == [kind |-> "none", attempt |-> attempt, slept |-> FALSE,
                  max_before |-> max_length, history |-> t.msgs,
                  called |-> FALSE]
         over == attempt + 1 >= max_retries
     IN  CASE t.result = "raised" ->
                /\ msgs' = temp
                /\ event' = [ev EXCEPT !.kind = "trim_raised",
                                       !.slept = SleepAfter(attempt) # <<>>]
                /\ sleeps' = sleeps \o SleepAfter(attempt)
                /\ attempt' = attempt + 1
                /\ pc' = IF over THEN "done" ELSE pc
                /\ result' = IF over THEN StreamEnd("exhausted") ELSE result
                /\ UNCHANGED <<sent, yielded, full_response_content>>
            [] t.result = "False" ->
                /\ event' = [ev EXCEPT !.kind = "trim_failed"]
                /\ pc' = "done"
                /\ result' = StreamEnd("stopped")
                /\ UNCHANGED <<msgs, sleeps, attempt, sent, yielded,
                               full_response_content>>
            [] t.result = "True" ->
                \E o \in StreamOutcomes :
                  LET full == Accumulate(full_response_content, o.chunks)
                      ok   == o.ending = "complete"
                  IN  /\ sent' = Append(sent, [messages |-> t.msgs,
                                               had |-> yielded,
                                               ended |-> o.ending])
                      /\ yielded' = yielded \o o.chunks
                      /\ full_response_content' = full
                      /\ event' =
                           [ev EXCEPT !.kind = o.ending, !.called = TRUE,
                                      !.slept = ~ok
                                                /\ SleepAfter(attempt) # <<>>]
                      /\ msgs' = IF ok
                                 THEN msgs \o <<User(request.msg),
                                                Assistant(Text(full, 0))>>
                                 ELSE msgs
                      /\ sleeps' = IF ok THEN sleeps
                                   ELSE sleeps \o SleepAfter(attempt)
                      /\ attempt' = IF ok THEN attempt ELSE attempt + 1
                      /\ pc' = IF ok \/ over THEN "done" ELSE pc
                      /\ result' = CASE ok   -> StreamEnd("committed")
                                     [] over -> StreamEnd("exhausted")
                                     [] OTHER -> result
  /\ UNCHANGED <<max_length, use_char_limit, reduction_factor, trim, before,
                 request, provVars, retryVars,
                 sessionVars>>

StreamNext == stream_generate \/ stream_attempt

StreamSpec == HandlerInit /\ [][StreamNext]_vars

\* ------------------------------------------------------------------------
\* Properties of ProviderManager (checked under ProviderSpec)
\* ------------------------------------------------------------------------

\* The names in the cache: the working-provider set.
WorkingSet == DOMAIN providers_info

\* The configured preferred providers, as a set.
PreferredSet ==
  IF preferred_providers.isNone THEN {} ELSE Range(preferred_providers.list)

\* Provider p's cached declaration names model m.
Declares(p, m) == m \in Range(providers_info[p].models.names)

TierA(m) == { p \in PreferredSet \cap WorkingSet : Declares(p, m) }

TierB(m) == { p \in WorkingSet : Declares(p, m) }

TierC == PreferredSet \cap WorkingSet

TierD == WorkingSet

FirstNonEmptyTier(m) ==
  IF TierA(m) # {} THEN TierA(m)
  ELSE IF TierB(m) # {} THEN TierB(m)
  ELSE IF TierC # {} THEN TierC
  ELSE TierD

Selected == call.op = "select" /\ call.outcome = "ok"

SelectFailed == call.op = "select" /\ call.outcome = "ProviderError"

\* C1: without a hint, _select_provider returns a member of the first
\* non-empty set among (a) preferred working providers declaring the model,
\* (b) working providers declaring the model, (c) preferred working
\* providers, (d) all working providers.
C1_TieredSelection ==
  (Selected /\ call.hint = NoHint) =>
     call.provider \in FirstNonEmptyTier(call.model)

\* A hint-less selection decided by tier (c): no working provider declares
\* the model, and the preferred working providers are a proper subset of
\* the working ones.
C1_Witness ==
  /\ Selected
  /\ call.hint = NoHint
  /\ TierB(call.model) = {}
  /\ TierC # {}
  /\ TierC # TierD
  /\ call.provider \in TierC

\* C2 as stated: with or without a hint, every returned provider is in the
\* working set and the call fails only when the working set is empty.
C2_FailsOnlyWhenEmpty ==
  /\ Selected => call.provider \in WorkingSet
  /\ SelectFailed => WorkingSet = {}

\* C2 amended: every returned provider is in the working set; without a
\* hint the call fails only when the working set is empty; with a hint it
\* fails only when the hinted provider is not in the working set.
C2_ReturnedIsWorking ==
  /\ Selected => call.provider \in WorkingSet
  /\ (SelectFailed /\ call.hint = NoHint) => WorkingSet = {}
  /\ (SelectFailed /\ call.hint # NoHint) => call.hint \notin WorkingSet

\* A hint-less selection on a freshly rebuilt cache that holds no working
\* provider fails.
C2_Witness ==
  /\ SelectFailed
  /\ call.hint = NoHint
  /\ call.refreshed
  /\ WorkingSet = {}

\* C3: with a hint, _select_provider returns the hinted provider when it is
\* in the working-provider cache and fails with ProviderError otherwise; it
\* never returns any other provider.
C3_HintNeverSubstituted ==
  (call.op = "select" /\ call.hint # NoHint) =>
     /\ call.hint \in WorkingSet => (Selected /\ call.provider = call.hint)
     /\ call.hint \notin WorkingSet => SelectFailed
     /\ Selected => call.provider = call.hint

\* A hinted provider that is not cached makes the call fail although other
\* providers are working and preferred.
C3_Witness ==
  /\ SelectFailed
  /\ call.hint # NoHint
  /\ call.hint \notin WorkingSet
  /\ TierC # {}

\* The cache's age when the last call decided.
CacheAge == now - last_fetch_time

\* _ensure_cache refreshes exactly when the age at the call is >= the TTL.
RefreshIffExpired ==
  (g4f /\ call.op # "none") =>
     (call.refreshed <=> (call.at - call.lastBefore >= provider_cache_ttl))

\* C4 as stated: with the library available, a refresh happens exactly when
\* now - last_fetch_time >= ttl, and every selection is decided on a cache
\* whose age is below the TTL.
C4_DecidedBelowTTL ==
  /\ RefreshIffExpired
  /\ (g4f /\ call.op = "select") => CacheAge < provider_cache_ttl

\* C4 amended: with the library available, a refresh happens exactly when
\* now - last_fetch_time >= ttl, and every selection is decided on a cache
\* that was rebuilt by this very call (age 0) or whose age is below the
\* TTL; for a TTL above 0 the age is always below the TTL.
C4_DecidedOnFreshCache ==
  /\ RefreshIffExpired
  /\ (g4f /\ call.op = "select") =>
        /\ (call.refreshed /\ CacheAge = 0) \/ CacheAge < provider_cache_ttl
        /\ provider_cache_ttl > 0 => CacheAge < provider_cache_ttl

\* A selection at the moment the cache's age equals the TTL rebuilds the
\* cache first.
C4_Witness ==
  /\ g4f
  /\ call.op = "select"
  /\ provider_cache_ttl > 0
  /\ call.lastBefore > 0
  /\ call.at - call.lastBefore = provider_cache_ttl
  /\ call.refreshed

\* C5: after a completed refresh the cache holds exactly the provider
\* classes the catalogue flags as working, each with its declared model(s)
\* and working = TRUE, and last_fetch_time is the refresh time.
C5_FullRebuild ==
  call.refreshed =>
     /\ WorkingSet = { n \in Range(CatalogNames) : IsType(n) /\ working[n] }
     /\ \A n \in WorkingSet :
          /\ providers_info[n].name = n
          /\ providers_info[n].working = TRUE
          /\ providers_info[n].models = Declared[n]
     /\ last_fetch_time = call.at

\* A refresh that dropped an entry of the earlier cache and kept another.
C5_Witness ==
  /\ call.refreshed
  /\ \E n \in call.cachedBefore : n \notin WorkingSet
  /\ \E n \in call.cachedBefore : n \in WorkingSet

\* ------------------------------------------------------------------------
\* Properties of ChatHandler (checked under ChatSpec)
\* ------------------------------------------------------------------------

\* The measured size of history h in the session's unit.
Size(h) == _count_length(h, use_char_limit, Encoding).size

Measurable(h) == ~_count_length(h, use_char_limit, Encoding).raised

HasLeadingSystem(h) == h # <<>> /\ h[1].role = "system"

\* The messages after a leading system message.
Rest(h) == IF HasLeadingSystem(h) THEN Tail(h) ELSE h

Lead(h) == IF HasLeadingSystem(h) THEN <<h[1]>> ELSE <<>>

Suffix(s, k) == SubSeq(s, Len(s) - k + 1, Len(s))

\* _trim_history was the last call and it returned.
TrimReturned == trim.op = "trim" /\ trim.result \in {"True", "False"}

\* The history handed to _trim_history measured more than max_length.
Exceeded == Measurable(trim.before) /\ Size(trim.before) > max_length

\* C6: when the history's first message is a system message, _trim_history
\* leaves that same message at index 0, whatever the reduction factor and
\* also when it reports failure.
C6_SystemPromptKept ==
  (trim.op = "trim" /\ HasLeadingSystem(trim.before)) =>
     /\ msgs # <<>>
     /\ msgs[1] = trim.before[1]

\* A trim that dropped messages behind a leading system message and still
\* reported failure.
C6_Witness ==
  /\ trim.op = "trim"
  /\ HasLeadingSystem(trim.before)
  /\ trim.result = "False"
  /\ Len(msgs) < Len(trim.before)
  /\ msgs[1] = trim.before[1]

\* C7 as stated: for a factor f >= 1.0 and every history, the history after
\* _trim_history holds at most floor(f) messages besides the system message.
C7_AtMostFloorMessages ==
  (TrimReturned /\ reduction_factor >= 10) =>
     Len(msgs) <= (reduction_factor \div 10) + Len(Lead(msgs))

\* C7 amended: for a factor f >= 1.0 and every history whose measured size
\* exceeds max_length, the history after _trim_history holds at most
\* floor(f) messages besides the system message; a history that fits is
\* left as it is, however many messages it holds.
C7_AtMostFloorWhenExceeded ==
  /\ (TrimReturned /\ reduction_factor >= 10 /\ Exceeded) =>
        Len(msgs) <= (reduction_factor \div 10) + Len(Lead(msgs))
  /\ (TrimReturned /\ ~Exceeded) => msgs = trim.before

\* A count-mode trim of an oversized history that had more than floor(f)
\* messages behind its system message.
C7_Witness ==
  /\ TrimReturned
  /\ reduction_factor >= 10
  /\ Exceeded
  /\ HasLeadingSystem(trim.before)
  /\ Len(Rest(trim.before)) > reduction_factor \div 10
  /\ Len(Rest(msgs)) = reduction_factor \div 10

\* The history the claim describes: the leading system message and the
\* longest suffix of the other messages that, measured together with it,
\* is <= target (no other message when no non-empty suffix is).
LongestFittingSuffix(h, target) ==
  LET others == Rest(h)
      fits   == { k \in 1..Len(others) :
                    Size(Lead(h) \o Suffix(others, k)) <= target }
      best   == IF fits = {} THEN 0
                ELSE CHOOSE k \in fits : \A j \in fits : j <= k
  IN  Lead(h) \o Suffix(others, best)

\* C8 as stated: for f < 1.0 and a history exceeding max_length,
\* _trim_history keeps the system message and the longest suffix of the
\* other messages whose size with it is <= floor(max_length * f).
C8_LongestSuffixFloor ==
  (TrimReturned /\ reduction_factor < 10 /\ Exceeded) =>
     msgs = LongestFittingSuffix(trim.before,
                                 (max_length * reduction_factor) \div 10)

\* max_length * f rounded toward zero, as int() does.
TargetLength ==
  IF max_length >= 0
  THEN (max_length * reduction_factor) \div 10
  ELSE 0 - (((0 - max_length) * reduction_factor) \div 10)

\* C8 amended: for f < 1.0 and a history exceeding max_length,
\* _trim_history keeps the system message and the longest suffix of the
\* other messages whose size with it is <= max_length * f rounded toward
\* zero (floor for max_length >= 0, ceiling for a max_length below 0).
C8_LongestSuffixTruncated ==
  (TrimReturned /\ reduction_factor < 10 /\ Exceeded) =>
     msgs = LongestFittingSuffix(trim.before, TargetLength)

\* A ratio-mode trim that dropped some, but not all, of the messages behind
\* the system message.
C8_Witness ==
  /\ TrimReturned
  /\ reduction_factor < 10
  /\ Exceeded
  /\ HasLeadingSystem(trim.before)
  /\ Len(Rest(msgs)) > 0
  /\ Len(Rest(msgs)) < Len(Rest(trim.before))

\* C9: _trim_history returns True exactly when the history it leaves
\* measures <= max_length, and False exactly when that history still
\* exceeds max_length.
C9_VerdictMatchesSize ==
  trim.op = "trim" =>
     /\ trim.result = "True"  <=> (Measurable(msgs) /\ Size(msgs) <= max_length)
     /\ trim.result = "False" <=> (Measurable(msgs) /\ Size(msgs) > max_length)

\* A trim that removed messages and still reports failure: what is left
\* exceeds max_length.
C9_Witness ==
  /\ trim.op = "trim"
  /\ trim.result = "False"
  /\ Len(msgs) < Len(trim.before)
  /\ Size(msgs) > max_length

\* C10: in character mode and in token mode, _count_length yields a size
\* for the history and for the history with any message appended, and the
\* second is >= the first.
C10_MeasureMonotone ==
  \A m \in Palette :
     /\ Measurable(msgs)
     /\ Measurable(Append(msgs, m))
     /\ Size(Append(msgs, m)) >= Size(msgs)

\* In character mode appending a message never lowers the measured size.
CharModeMonotone ==
  use_char_limit =>
     \A m \in Palette :
        /\ Measurable(msgs)
        /\ Measurable(Append(msgs, m))
        /\ Size(Append(msgs, m)) >= Size(msgs)

\* ------------------------------------------------------------------------
\* Properties of async_retry and ChatModule (checked under RetrySpec)
\* ------------------------------------------------------------------------

\* What the i-th invocation of the decorated coroutine gave the wrapper.
Gave(i) == Outcome(func, calls[i])

\* The wrapper was entered.
Entered == pc = "wrapper" \/ wres.status # "none"

\* The first k invocations have been made and each raised a retryable error.
FirstRaisedRetryable(k) ==
  /\ Len(calls) >= k
  /\ \A i \in 1..k : Gave(i) \in retryable_exceptions

\* C11: with `retries` = max_attempts >= 1, a coroutine that raises a
\* retryable error on each of its first max_attempts - 1 invocations and
\* succeeds on the next is invoked exactly max_attempts times and the wrapper
\* returns the value of that invocation: while only retryable errors have
\* been raised, by fewer than max_attempts invocations, the wrapper has not
\* ended.
C11_SucceedsWithinBudget ==
  LET max_attempts == retries
  IN  (Entered /\ max_attempts >= 1) =>
        /\ \A k \in 0..(max_attempts - 1) :
             (Len(calls) = k /\ FirstRaisedRetryable(k)) =>
               (pc = "wrapper" /\ wres = NoResult)
        /\ ( /\ FirstRaisedRetryable(max_attempts - 1)
             /\ Len(calls) >= max_attempts
             /\ Gave(max_attempts) = "ok" ) =>
               (Len(calls) = max_attempts /\ wres = Value(max_attempts))

C11_Witness ==
  /\ func = "func"
  /\ retries = 3
  /\ calls = <<"TimeoutError", "RateLimitError", "ok">>
  /\ wres = Value(3)
  /\ sleeps = <<delay, delay * backoff_factor>>

\* This step invokes the coroutine and it raises a non-retryable error.
RaisesNonRetryable ==
  /\ Len(calls') = Len(calls) + 1
  /\ Outcome(func, calls'[Len(calls')])
       \notin retryable_exceptions \cup {"ok"}

\* C12: when an invocation raises an error that is not retryable, the
\* wrapper ends in that step by raising that same error, without a sleep,
\* whatever attempts remain; and a wrapper that has ended neither invokes
\* the coroutine nor sleeps.
C12_NonRetryablePropagates ==
  [][ /\ RaisesNonRetryable =>
           /\ wres' = Raised(Exc(Outcome(func, calls'[Len(calls')]),
                                  Len(calls')))
           /\ sleeps' = sleeps
           /\ pc' = "done"
      /\ wres.status # "none" => (calls' = calls /\ sleeps' = sleeps)
    ]_vars

C12_Witness ==
  /\ func = "func"
  /\ calls = <<"InvalidResponseError", "ProviderError">>
  /\ attempt < retries
  /\ wres = Raised(Exc("ProviderError", 2))
  /\ Len(sleeps) = 1

\* The transient failures of the backend: rate limiting, an empty or
\* invalid response, a timeout.
Transient == {"rate limit", "empty", "timeout"}

\* C13: in ChatModule, a backend call that fails in a transient way is
\* followed by another backend call while attempts remain: the wrapper
\* ends after a transient failure only when the budget is used up.
C13_TransientKindsRetried ==
  ( /\ func = "_make_api_call"
    /\ wres.status # "none"
    /\ calls # <<>>
    /\ calls[Len(calls)] \in Transient ) =>
      Len(calls) = Attempts(retries)

\* Of the three, rate limiting is retried.
RateLimitRetried ==
  ( /\ func = "_make_api_call"
    /\ wres.status # "none"
    /\ calls # <<>>
    /\ calls[Len(calls)] = "rate limit" ) =>
      Len(calls) = Attempts(retries)

\* ChatModule.generate has ended.
GenerateEnded == func = "_make_api_call" /\ pc = "done"

\* The last error under a failed ChatModule.generate: the one of the last
\* backend call, or of the provider selection when no call was made.
LastUnderlying ==
  IF calls = <<>> THEN Exc("ProviderError", 0)
  ELSE Exc(Gave(Len(calls)), Len(calls))

\* generate returned the text of its last backend call, or raised an
\* APIError carrying the last underlying error.
TextOrAPIError ==
  IF calls # <<>> /\ calls[Len(calls)] = "text"
  THEN gres = Value(Len(calls))
  ELSE /\ gres.status = "raised"
       /\ gres.kind = "APIError"
       /\ gres.last_exception = LastUnderlying

\* C14: every ChatModule.generate that does not return the response
\* raises an APIError whose last_exception is the last underlying error.
C14_FailuresAreAPIError == GenerateEnded => TextOrAPIError

\* C14, amended: so it is when the g4f library is importable; when it is
\* not, generate raises ImportError before it selects a provider.
C14_FailuresAreAPIErrorWithG4F ==
  GenerateEnded =>
    IF g4f THEN TextOrAPIError
    ELSE gres = Raised(Exc("ImportError", 0)) /\ calls = <<>>

C14_Witness ==
  /\ GenerateEnded
  /\ g4f
  /\ Len(calls) = Attempts(ChatRetries)
  /\ gres = APIError(Exc("RateLimitError", Attempts(ChatRetries)))

\* ------------------------------------------------------------------------
\* Properties of ChatHandler.generate (checked under GenerateSpec)
\* ------------------------------------------------------------------------

\* The last iteration called the backend.
Called == event.kind \in {"return", "none", "adapt", "sleep"}

\* The last iteration's backend call failed with an oversize-context text
\* that states a limit.
OversizeMet ==
  /\ Called
  /\ event.outcome.kind = "error"
  /\ event.outcome.signature
  /\ event.outcome.limit > 0

\* The attempts of the loop that are still to run.
AttemptsLeft(a) == max_retries - a

\* C15: after a backend call failed with an oversize-context text stating
\* the limit L, on whichever attempt, max_length is L - 500, the iteration
\* has not slept and another attempt follows.
C15_OversizeRetriedAtOnce ==
  OversizeMet =>
    /\ max_length = event.outcome.limit - Margin
    /\ ~event.slept
    /\ pc = "generate"

\* So it is before the last attempt, and the attempt is used up.
OversizeRetriedBeforeLast ==
  (OversizeMet /\ event.attempt < max_retries - 1) =>
      /\ max_length = event.outcome.limit - Margin
      /\ ~event.slept
      /\ pc = "generate"
      /\ AttemptsLeft(attempt) = AttemptsLeft(event.attempt) - 1

\* C16: an iteration whose trimming failed has set max_length to
\* int(max_length * 0.8) and called no backend; when that is below 500 the
\* request has ended with no result, and otherwise as many attempts are
\* left as before the iteration.
C16_TrimFailureKeepsAttempts ==
  event.kind = "trim_failed" =>
    /\ max_length = TruncDiv(event.max_before * ShrinkTenths, 10)
    /\ ~event.called
    /\ IF max_length < MinLength
       THEN pc = "done" /\ result = Absent
       ELSE AttemptsLeft(attempt) = AttemptsLeft(event.attempt)

\* What of it holds: the shrinking, the floor, and one attempt used up.
TrimFailureUsesAttempt ==
  event.kind = "trim_failed" =>
    /\ max_length = TruncDiv(event.max_before * ShrinkTenths, 10)
    /\ ~event.called
    /\ IF max_length < MinLength
       THEN pc = "done" /\ result = Absent
       ELSE AttemptsLeft(attempt) = AttemptsLeft(event.attempt) - 1

\* C17: when the backend call succeeded with empty content, generate has
\* returned None in that iteration: the request is over (no further
\* backend call), the iteration has not slept, and the history is the one
\* the call was made with, without an assistant message.
C17_EmptyReturnsAtOnce ==
  (Called /\ event.outcome.kind = "empty") =>
    /\ pc = "done"
    /\ result = Absent
    /\ ~event.slept
    /\ msgs = event.history

C17_Witness ==
  /\ Called
  /\ event.outcome.kind = "empty"
  /\ event.attempt = 1
  /\ sleeps = <<RetrySleep>>
  /\ Len(sent) = 2
  /\ result = Absent

\* The last iteration got content and had it cleaned.
Cleaned == event.kind = "return" /\ request.clean_ad

\* The secondary call failed, or its answer is no JSON object.
NoJudgment == event.judgment.kind # "object"

Committed == pc = "done" /\ result = StreamEnd("committed")

\* C18: after stream_generate completed, whatever attempts failed before,
\* the history is the one before the call, then the original request as
\* one user message, then one assistant message whose content is all the
\* fragments yielded, in order.
C18_CommitsOneExchange ==
  (request.op = "stream" /\ Committed) =>
    msgs = before \o <<User(request.msg), Assistant(Text(yielded, 0))>>

C18_Witness ==
  /\ request.op = "stream"
  /\ Committed
  /\ before # <<>>
  /\ Len(sent) = 3
  /\ sent[2].had = <<>>
  /\ sent[3].had = <<"a">>
  /\ yielded = <<"a", "a", "b">>

\* The context the claim describes for an attempt made after the text
\* `had` was yielded.
Context(had) ==
  IF had # <<>>
  THEN before \o <<User(request.msg), Assistant(Text(had, 0)), User(Continue)>>
  ELSE Append(before, User(request.msg))

\* C19: every attempt sends the history, the original request and, when
\* text was yielded already, that text as an assistant message and the
\* continuation instruction.
C19_SendsWholeContext ==
  request.op = "stream" =>
    \A i \in 1..Len(sent) : sent[i].messages = Context(sent[i].had)

\* C19, amended: what is sent is that context after trimming: the context
\* itself when its size is within max_length, and else a list within
\* max_length made of the context's leading system message, if it has
\* one, and of a suffix of its other messages.
C19_SendsTrimmedContext ==
  request.op = "stream" =>
    \A i \in 1..Len(sent) :
      LET c == Context(sent[i].had)
          m == sent[i].messages
      IN  IF Size(c) <= max_length THEN m = c
          ELSE /\ Size(m) <= max_length
               /\ Lead(m) = Lead(c)
               /\ \E k \in 0..Len(Rest(c)) : Rest(m) = Suffix(Rest(c), k)

C19_Witness ==
  /\ request.op = "stream"
  /\ Len(sent) = 2
  /\ sent[1].messages = Context(<<>>)
  /\ sent[2].had = <<"a">>
  /\ sent[2].messages # Context(<<"a">>)
  /\ User(Continue) \in Range(sent[2].messages)

\* ------------------------------------------------------------------------
\* History after a failed request (checked under GenerateSpec)
\* ------------------------------------------------------------------------

\* ChatHandler.generate ended without a result.
GenerateFailed == request.op = "generate" /\ pc = "done" /\ result = Absent

\* C21: when ChatHandler.generate ends without a result, the history is
\* the one before the call: the request's user message is not in it and
\* no earlier message is missing.
C21_FailedGenerateLeavesHistory == GenerateFailed => msgs = before

\* ------------------------------------------------------------------------
\* Two sessions of G4F.new_chat (ai/__init__.py, ai/chat.py)
\* ------------------------------------------------------------------------

SessionIds == {"A", "B"}

Other(s) == IF s = "A" THEN "B" ELSE "A"

\* ChatHandler(config, model, context): `self.msgs = context if context
\* else []`, with the max_length of the model's profile.
ChatHandler(context, maxLen) ==
  [msgs |-> context, max_length |-> maxLen, pc |-> "idle", attempt |-> 0,
   turns |-> 0]

\* G4F.new_chat twice.  The context is handed on as it is, so that two
\* calls with one non-empty list leave both sessions holding that list
\* object; an empty or absent context gives each session a list of its own.
HandlersInit ==
  /\ \E ca \in Seeds, cb \in Seeds, la \in {MaxLength, 1000},
        lb \in {MaxLength, 1000} :
       handlers = [s \in SessionIds |->
                     IF s = "A" THEN ChatHandler(ca, la)
                     ELSE ChatHandler(cb, lb)]
  /\ same_list \in IF handlers["A"].msgs = handlers["B"].msgs
                      /\ handlers["A"].msgs # <<>>
                   THEN BOOLEAN ELSE {FALSE}
  /\ touch = NoTouch
  /\ use_char_limit \in BOOLEAN
  /\ reduction_factor \in {7, 25}
  /\ msgs = <<>> /\ max_length = 0 /\ trim = NoTrim
  /\ ProvIdle /\ LoopIdle /\ RetryIdle /\ HandlerIdle /\ ChatSessionIdle
  /\ ProfilesIdle /\ TasksIdle
  /\ handler_info = GenericCapabilities

\* generate's loop from the top of iteration `a` to its next await (the
\* backend call, asyncio.sleep) or its end: _trim_history, the shrinking
\* of max_length when it fails, `continue`.  `rebound` tells whether
\* _trim_history assigned a new list to self.msgs on the way.
RECURSIVE run_loop(_, _, _, _, _, _)
run_loop(messages, maxLen, a, rebound, factor, charMode) ==
  IF a >= max_retries
  THEN [msgs |-> messages, max_length |-> maxLen, pc |-> "idle",
        attempt |-> a, rebound |-> rebound]
  ELSE
    LET t == _trim_history(messages, maxLen, factor, charMode, Encoding)
        shrunk == TruncDiv(maxLen * ShrinkTenths, 10)
    IN  CASE t.result = "raised" ->
               [msgs |-> messages, max_length |-> maxLen,
                pc |-> IF SleepAfter(a) # <<>> THEN "sleep" ELSE "idle",
                attempt |-> a + 1, rebound |-> rebound]
          [] t.result = "True" ->
               [msgs |-> t.msgs, max_length |-> maxLen, pc |-> "await",
                attempt |-> a,
                rebound |-> rebound
                            \/ _count_length(messages, charMode,
                                             Encoding).size > maxLen]
          [] t.result = "False" ->
               IF shrunk < MinLength
               THEN [msgs |-> t.msgs, max_length |-> shrunk, pc |-> "idle",
                     attempt |-> a, rebound |-> TRUE]
               ELSE run_loop(t.msgs, shrunk, a + 1, TRUE, factor, charMode)

\* The list object run_loop began with, as its first _trim_history leaves
\* it; the later ones work on the list that one assigned.
in_place(messages, maxLen, a, factor, charMode) ==
  IF a < max_retries
  THEN list_after_trim(messages, maxLen, factor, charMode, Encoding)
  ELSE messages

\* What an operation on session s leaves: `inplace` is the list s held,
\* after its changes in place (seen by every holder of that list object),
\* `r` the session after the rest of the operation.
Touched(s, op, inplace, r) ==
  /\ handlers' =
       [x \in SessionIds |->
          IF x = s
          THEN [handlers[s] EXCEPT !.msgs = r.msgs,
                                   !.max_length = r.max_length,
                                   !.pc = r.pc, !.attempt = r.attempt,
                                   !.turns = IF op = "generate"
                                             THEN @ + 1 ELSE @]
          ELSE IF same_list
               THEN [handlers[x] EXCEPT !.msgs = inplace]
               ELSE handlers[x]]
  /\ same_list' = (same_list /\ ~r.rebound)
  /\ touch' = [on |-> s, op |-> op, other |-> handlers[Other(s)]]
  /\ UNCHANGED <<coreVars, chatSessionVars>>

\* ChatHandler.generate(msg) on session s, up to its first await.
session_generate(s) ==
  /\ handlers[s].pc = "idle"
  /\ handlers["A"].turns + handlers["B"].turns < MaxTurns
  /\ \E msg \in {Text(<<"q">>, 0), Text(<<"big">>, 0)} :
       LET appended == Append(handlers[s].msgs, User(msg))
       IN  Touched(s, "generate",
                   in_place(appended, handlers[s].max_length, 0,
                            reduction_factor, use_char_limit),
                   run_loop(appended, handlers[s].max_length, 0, FALSE,
                            reduction_factor, use_char_limit))

\* The backend call of session s ends: generate goes on to its next await
\* or its end.
session_response(s) ==
  /\ handlers[s].pc = "await"
  /\ \E o \in CompletionOutcomes :
       LET h == handlers[s]
           d == Disposition(o)
           appended == Append(h.msgs, Assistant(o.content))
           stay == [msgs |-> h.msgs, max_length |-> h.max_length,
                    pc |-> "idle", attempt |-> h.attempt,
                    rebound |-> FALSE]
       IN  CASE d = "return" ->
                  Touched(s, "response", appended,
                          [stay EXCEPT !.msgs = appended])
             [] d = "none" -> Touched(s, "response", h.msgs, stay)
             [] d = "sleep" ->
                  Touched(s, "response", h.msgs,
                          [stay EXCEPT !.attempt = h.attempt + 1,
                                       !.pc = IF SleepAfter(h.attempt) # <<>>
                                              THEN "sleep" ELSE "idle"])
             [] d = "adapt" ->
                  Touched(s, "response",
                          in_place(h.msgs, provider_max(o) - Margin,
                                   h.attempt + 1, reduction_factor,
                                   use_char_limit),
                          run_loop(h.msgs, provider_max(o) - Margin,
                                   h.attempt + 1, FALSE, reduction_factor,
                                   use_char_limit))

\* asyncio.sleep(2) of session s is over.
session_wake(s) ==
  /\ handlers[s].pc = "sleep"
  /\ Touched(s, "wake",
             in_place(handlers[s].msgs, handlers[s].max_length,
                      handlers[s].attempt, reduction_factor, use_char_limit),
             run_loop(handlers[s].msgs, handlers[s].max_length,
                      handlers[s].attempt, FALSE, reduction_factor,
                      use_char_limit))

\* clear_context() on session s: self.msgs is assigned a new list.
session_clear_context(s) ==
  \E keep \in BOOLEAN :
    Touched(s, "clear_context", handlers[s].msgs,
            [msgs |-> IF keep THEN system_prompt(handlers[s].msgs)
                      ELSE <<>>,
             max_length |-> handlers[s].max_length, pc |-> handlers[s].pc,
             attempt |-> handlers[s].attempt, rebound |-> TRUE])

HandlersNext ==
  \E s \in SessionIds :
    \/ session_generate(s)
    \/ session_response(s)
    \/ session_wake(s)
    \/ session_clear_context(s)

HandlersSpec == HandlersInit /\ [][HandlersNext]_vars

\* C22: an operation on one session changes neither the history nor the
\* max_length of the other session.
C22_SessionsAreIsolated ==
  touch.on # "none" =>
    /\ handlers[Other(touch.on)].msgs = touch.other.msgs
    /\ handlers[Other(touch.on)].max_length = touch.other.max_length

\* ------------------------------------------------------------------------
\* ChatSession (g4f_sdk/chat.py)
\* ------------------------------------------------------------------------

\* _count_tokens(text): len(tokenizer.encode(text)), or len(text) // 4
\* without tiktoken.
_count_tokens(text, tok) == IF tok THEN text.toks ELSE text.chars \div 4

\* sum(_count_tokens(msg["content"]) for msg in self.history)
RECURSIVE total_tokens(_, _)
total_tokens(h, tok) ==
  IF h = <<>> THEN 0
  ELSE _count_tokens(Head(h).content, tok) + total_tokens(Tail(h), tok)

\* Variant of PopOldest: the newest message is never popped.
RECURSIVE PopOldest_KeepNewest(_, _, _, _)
PopOldest_KeepNewest(h, total, limit, tok) ==
  IF total > limit /\ Len(h) > 1
  THEN PopOldest_KeepNewest(Tail(h),
                            total - _count_tokens(Head(h).content, tok),
                            limit, tok)
  ELSE h

\* while total_tokens > self.max_history_tokens and self.history:
\*   total_tokens -= _count_tokens(self.history.pop(0)["content"])
RECURSIVE PopOldest(_, _, _, _)
PopOldest(h, total, limit, tok) ==
  IF total > limit /\ h # <<>>
  THEN PopOldest(Tail(h), total - _count_tokens(Head(h).content, tok),
                 limit, tok)
  ELSE h

\* Variant of session_trim_history: the system prompt is put back with
\* append instead of insert(0, ...).
session_trim_history_append(h, limit, tok) ==
  IF total_tokens(h, tok) <= limit THEN h
  ELSE PopOldest(SubSeq(h, Len(system_prompt(h)) + 1, Len(h)),
                 total_tokens(h, tok), limit, tok)
       \o system_prompt(h)

\* ChatSession._trim_history: the history it leaves.  The total it works
\* with is the one measured with the system prompt in the list.
session_trim_history(h, limit, tok) ==
  IF total_tokens(h, tok) <= limit THEN h
  ELSE system_prompt(h)
       \o PopOldest(SubSeq(h, Len(system_prompt(h)) + 1, Len(h)),
                    total_tokens(h, tok), limit, tok)

\* A system prompt of nine tokens.
LongSystemMsg == [role |-> "system", content |-> Str(40, 9)]

\* What ChatSession.generate is called with, and what
\* client.chat.generate gives back.
SessionMsgs == {Str(0, 0), Str(3, 2), Str(40, 9)}

SessionReplies == {Str(5, 1), Str(40, 9)}

\* ChatSession(client, model, system_prompt): `if system_prompt:` appends
\* the system message; max_history_tokens comes from the configuration.
ChatSessionMade ==
  /\ tokenizer \in BOOLEAN
  /\ session_history \in {<<>>, <<SystemMsg>>, <<LongSystemMsg>>}
  /\ max_history_tokens \in 0..MaxLength
  /\ chat = [op |-> "new_chat"]

ChatSessionInit ==
  /\ ChatSessionMade
  /\ ProvIdle /\ ChatIdle /\ LoopIdle /\ RetryIdle /\ HandlerIdle
  /\ HandlersIdle /\ ProfilesIdle /\ TasksIdle
  /\ handler_info = GenericCapabilities

\* ChatSession.generate(msg): the user message is appended and the history
\* trimmed, then handed to client.chat.generate; its text is appended, or
\* its APIError propagates.
ChatSession_generate ==
  /\ chat # NoChat
  /\ Len(session_history) < MaxMsgs
  /\ \E msg \in SessionMsgs, raises \in BOOLEAN, reply \in SessionReplies :
       LET appended == Append(session_history, User(msg))
           handed == session_trim_history(appended, max_history_tokens,
                                          tokenizer)
       IN  /\ session_history' = IF raises THEN handed
                                 ELSE Append(handed, Assistant(reply))
           /\ chat' = [op |-> "generate", msg |-> msg,
                       before |-> session_history, handed |-> handed,
                       outcome |-> IF raises THEN "APIError" ELSE "text"]
  /\ UNCHANGED <<tokenizer, max_history_tokens, coreVars, handlersVars>>

\* ChatSession._trim_history() on the history as it is.
ChatSession_trim_history ==
  /\ chat # NoChat
  /\ session_history' =
       session_trim_history(session_history, max_history_tokens, tokenizer)
  /\ chat' = [op |-> "_trim_history", before |-> session_history,
              handed |-> session_history']
  /\ UNCHANGED <<tokenizer, max_history_tokens, coreVars, handlersVars>>

ChatSessionNext == ChatSession_generate \/ ChatSession_trim_history

ChatSessionSpec == ChatSessionInit /\ [][ChatSessionNext]_vars

\* ------------------------------------------------------------------------
\* Every operation that changes a history (ai/chat.py, g4f_sdk/chat.py)
\* ------------------------------------------------------------------------

\* Either a ChatHandler with a seeded history or a ChatSession is made.
HistoryInit ==
  \/ HandlerInit
  \/ /\ ChatSessionMade
     /\ pc = "no handler" /\ attempt = 0 /\ sleeps = <<>>
     /\ ProvIdle /\ ChatIdle /\ RetryIdle /\ HandlerIdle /\ HandlersIdle
     /\ ProfilesIdle /\ TasksIdle
     /\ handler_info = GenericCapabilities

\* _trim_history() and clear_context() on the handler, when there is one.
handler_trim_history == pc # "no handler" /\ TrimHistoryCall

handler_clear_context == pc # "no handler" /\ clear_context

HistoryNext ==
  \/ generate \/ generate_attempt
  \/ stream_generate \/ stream_attempt
  \/ handler_trim_history \/ handler_clear_context
  \/ ChatSession_generate \/ ChatSession_trim_history

HistorySpec == HistoryInit /\ [][HistoryNext]_vars

\* The system messages of a history are at most its first message.
SystemFirst(h) == \A i \in 2..Len(h) : h[i].role # "system"

\* C23: every history reached from one with at most one system message, at
\* index 0, has at most one system message, and has it at index 0.
C23_SystemMessageFirst == SystemFirst(msgs) /\ SystemFirst(session_history)

\* A ChatSession with a system prompt trimmed its history in generate and
\* went on with the system prompt and more.
C23_Witness ==
  /\ chat.op = "generate"
  /\ Len(chat.handed) <= Len(chat.before)
  /\ Len(chat.handed) > 1
  /\ chat.handed[1].role = "system"

\* generate was asked for web search, or given images, that the resolved
\* profile does not support.
WebSearchRefused ==
  /\ request.op = "generate" /\ request.resolved
  /\ request.asked.web_search /\ ~handler_info.supports_web_search

ImagesRefused ==
  /\ request.op = "generate" /\ request.resolved
  /\ request.asked.images /\ ~handler_info.supports_vision

\* C24: a capability the resolved profile does not support does not stop
\* generate: the loop is entered and nothing is raised, every backend call
\* has web search off, and the user message carries no images.
C24_UnsupportedCapabilityIgnored ==
  /\ WebSearchRefused => \A i \in 1..Len(sent) : ~sent[i].web_search
  /\ (ImagesRefused /\ request.msg.chars > 0) =>
       request.messages[Len(request.messages)] = User(request.msg)
  /\ (WebSearchRefused \/ ImagesRefused) =>
       /\ result.status # "raised"
       /\ pc = "generate" \/ event # NoEvent

\* Both were refused, and the backend answered the request.
C24_Witness ==
  /\ WebSearchRefused /\ ImagesRefused
  /\ request.msg.chars > 0
  /\ sent # <<>>
  /\ result.status = "returned" /\ result.kind = "content"

\* ------------------------------------------------------------------------
\* Model and provider profiles (ai/models_info.py)
\* ------------------------------------------------------------------------

\* provider_name=None (or '').
NoProvider == ""

\* The models asked about, the providers g4f.Provider exports, and the
\* provider names get_model_provider_info is called with ("Ghost" is no
\* provider of the gateway).
ModelNames == {"gpt-4o", "tts-1", "new"}

GatewayProviders == {"Bing", "You", "Other"}

ProviderArgs == {NoProvider, "Bing", "You", "Other", "Ghost"}

\* An attribute of g4f.models with `name` and `best_provider`, its
\* `providers` list (here the set of their names) possibly empty; or no
\* such attribute.
Discovered(ps, best) ==
  [discovered |-> TRUE, providers |-> ps, best_provider |-> best]

Undiscovered == [discovered |-> FALSE]

Catalogs ==
  [ModelNames ->
     {Undiscovered}
     \cup {Discovered(ps, b) : ps \in SUBSET {"Bing", "Other"},
                               b \in {"Bing", "You"}}]

\* dict.get(k, default)
get(d, k, default) == IF k \in DOMAIN d THEN d[k] ELSE default

\* Variant of update: the entries already there win.
update_keeps_old(d, e) ==
  [k \in DOMAIN d \cup DOMAIN e |-> IF k \in DOMAIN d THEN d[k] ELSE e[k]]

\* d.update(e), as the dict it leaves
update(d, e) ==
  [k \in DOMAIN d \cup DOMAIN e |-> IF k \in DOMAIN e THEN e[k] ELSE d[k]]

\* STATIC_ENRICHMENT_DATA: the entries of 'gpt-4o' (Bing, You) and 'tts-1'.
STATIC_ENRICHMENT_DATA ==
  [m \in {"gpt-4o", "tts-1"} |->
     IF m = "gpt-4o"
     THEN [_default |-> [type |-> "vision", max_tokens |-> 128000,
                         supports_vision |-> TRUE],
           providers |->
             [p \in {"Bing", "You"} |->
                IF p = "Bing"
                THEN [max_tokens |-> 32768, supports_web_search |-> TRUE,
                      is_stable |-> TRUE, notes |-> "best"]
                ELSE [max_tokens |-> 4096, supports_web_search |-> TRUE,
                      is_stable |-> FALSE, notes |-> "unstable"]]]
     ELSE [_default |-> [type |-> "audio_speech", max_chars |-> 4096]]]

GENERIC_DEFAULTS ==
  [type |-> "chat", max_tokens |-> 99999, supports_vision |-> TRUE,
   supports_web_search |-> TRUE, is_stable |-> FALSE, notes |-> "none"]

\* _discover_and_merge_models_info(): for every discovered model, a
\* profile per provider of its list (or its best provider when the list is
\* empty), built by GENERIC_DEFAULTS.copy() and two update() calls.
_discover_and_merge_models_info(cat) ==
  [m \in {n \in DOMAIN cat : cat[n].discovered} |->
     LET provider_names == IF cat[m].providers # {}
                           THEN cat[m].providers
                           ELSE {cat[m].best_provider}
         static_model_data == get(STATIC_ENRICHMENT_DATA, m, <<>>)
         model_defaults == get(static_model_data, "_default", <<>>)
         static_providers_data == get(static_model_data, "providers", <<>>)
     IN  [name |-> m,
          g4f_best_provider |-> cat[m].best_provider,
          providers |->
            [p \in provider_names |->
               update(update(GENERIC_DEFAULTS, model_defaults),
                      get(static_providers_data, p, <<>>))]]]

\* get_all_models_info(): the cache, filled on first use.
get_all_models_info(cache, cat) ==
  IF cache.filled THEN cache
  ELSE [filled |-> TRUE, models |-> _discover_and_merge_models_info(cat)]

\* What get_model_provider_info returns.
Info(model_name, chosen_provider, profile) ==
  [status |-> "returned", model_name |-> model_name,
   chosen_provider |-> chosen_provider, profile |-> profile]

\* get_model_provider_info(model_name, provider_name).  For a named
\* provider that the model does not list, all_providers is scanned with
\* `p.__name__`: str has no such attribute, so the scan raises when
\* __all__ holds names.
get_model_provider_info(all_models, all, model_name, provider_name) ==
  IF model_name \notin DOMAIN all_models
  THEN Info(model_name, provider_name, GENERIC_DEFAULTS)
  ELSE
    LET model_info == all_models[model_name]
        default_provider ==
          get(get(get(STATIC_ENRICHMENT_DATA, model_name, <<>>),
                  "_default", <<>>),
              "default_provider", NoProvider)
        final(chosen) ==
          LET c == IF chosen # NoProvider THEN chosen
                   ELSE IF default_provider # NoProvider
                        THEN default_provider
                        ELSE model_info.g4f_best_provider
          IN  Info(model_name, c,
                   get(model_info.providers, c, GENERIC_DEFAULTS))
    IN  IF provider_name # NoProvider
           /\ provider_name \notin DOMAIN model_info.providers
        THEN IF all.kind = "names" /\ all.names # {}
             THEN [status |-> "raised", kind |-> "AttributeError"]
             ELSE IF all.kind = "classes" /\ provider_name \in all.names
                  THEN Info(model_name, provider_name, GENERIC_DEFAULTS)
                  ELSE final(model_info.g4f_best_provider)
        ELSE final(provider_name)

\* The module as imported: g4f.Provider.__all__ holds the providers' names
\* (what `from ... import *` needs of an __all__) or the provider classes
\* (what the scan assumes), and nothing is cached.
ProfilesInit ==
  /\ catalog \in Catalogs
  /\ all_providers \in {[kind |-> k, names |-> GatewayProviders] :
                          k \in {"names", "classes"}}
  /\ _models_info_cache = NoCache
  /\ lookup = NoLookup
  /\ ProvIdle /\ ChatIdle /\ LoopIdle /\ RetryIdle /\ HandlerIdle
  /\ HandlersIdle /\ ChatSessionIdle /\ TasksIdle
  /\ handler_info = GenericCapabilities

GetAllModelsInfo ==
  /\ _models_info_cache' = get_all_models_info(_models_info_cache, catalog)
  /\ lookup' = [op |-> "get_all_models_info"]
  /\ UNCHANGED <<catalog, all_providers, provVars, chatVars, loopVars,
                 retryVars, handlerVars, handlersVars, chatSessionVars,
                 handler_info, tasksVars>>

GetModelProviderInfo ==
  /\ \E model_name \in ModelNames, provider_name \in ProviderArgs :
       LET cache == get_all_models_info(_models_info_cache, catalog)
       IN  /\ _models_info_cache' = cache
           /\ lookup' =
                [op |-> "get_model_provider_info", model |-> model_name,
                 provider |-> provider_name,
                 outcome |-> get_model_provider_info(cache.models,
                                                     all_providers,
                                                     model_name,
                                                     provider_name)]
  /\ UNCHANGED <<catalog, all_providers, provVars, chatVars, loopVars,
                 retryVars, handlerVars, handlersVars, chatSessionVars,
                 handler_info, tasksVars>>

ProfilesNext == GetAllModelsInfo \/ GetModelProviderInfo

ProfilesSpec == ProfilesInit /\ [][ProfilesNext]_vars

\* The value the three layers give a key: the provider's static entry, else
\* the model's static default, else the generic default.
Layered(m, p, k) ==
  LET sd == get(STATIC_ENRICHMENT_DATA, m, <<>>)
      override == get(get(sd, "providers", <<>>), p, <<>>)
      defaults == get(sd, "_default", <<>>)
  IN  IF k \in DOMAIN override THEN override[k]
      ELSE IF k \in DOMAIN defaults THEN defaults[k]
      ELSE GENERIC_DEFAULTS[k]

\* C25: for every discovered (model, provider) pair and every profile key,
\* the value is the provider's static override when there is one, else the
\* model's static default when there is one, else the generic default.
C25_ProfileIsLayered ==
  _models_info_cache.filled =>
    \A m \in DOMAIN _models_info_cache.models :
      \A p \in DOMAIN _models_info_cache.models[m].providers :
        LET profile == _models_info_cache.models[m].providers[p]
        IN  \A k \in DOMAIN profile : profile[k] = Layered(m, p, k)

\* 'gpt-4o' was discovered with Bing (an override of max_tokens) and Other
\* (the model's default), 'new' with the generic value.
C25_Witness ==
  /\ _models_info_cache.filled
  /\ {"gpt-4o", "new"} \subseteq DOMAIN _models_info_cache.models
  /\ {"Bing", "Other"} \subseteq
       DOMAIN _models_info_cache.models["gpt-4o"].providers
  /\ _models_info_cache.models["gpt-4o"].providers["Bing"].max_tokens
       = 32768
  /\ _models_info_cache.models["gpt-4o"].providers["Other"].max_tokens
       = 128000
  /\ \E p \in DOMAIN _models_info_cache.models["new"].providers :
       _models_info_cache.models["new"].providers[p].max_tokens = 99999

\* C26: get_model_provider_info called with a named provider returns that
\* provider as chosen_provider, for every model and every provider name.
C26_NamedProviderChosen ==
  (lookup.op = "get_model_provider_info" /\ lookup.provider # NoProvider) =>
    /\ lookup.outcome.status = "returned"
    /\ lookup.outcome.chosen_provider = lookup.provider

\* The list the last ChatSession call trimmed.
Trimmed ==
  IF chat.op = "generate" THEN Append(chat.before, User(chat.msg))
  ELSE chat.before

SessionTrimmed == chat.op \in {"generate", "_trim_history"}

\* C27: ChatSession._trim_history keeps the system prompt (if any) at index
\* 0 and the most recent message: the user message generate appended is
\* still in the history handed to the backend.
C27_TrimKeepsSystemAndNewest ==
  (SessionTrimmed /\ Trimmed # <<>>) =>
    /\ system_prompt(chat.handed) = system_prompt(Trimmed)
    /\ chat.handed # <<>>
    /\ chat.handed[Len(chat.handed)] = Trimmed[Len(Trimmed)]

\* C28 as stated: after ChatSession._trim_history the history's tokens are
\* within max_history_tokens, for every history and every limit.
C28_TrimFitsLimit ==
  SessionTrimmed =>
    total_tokens(chat.handed, tokenizer) <= max_history_tokens

\* C28: after ChatSession._trim_history the history's tokens are within
\* max_history_tokens, or nothing but the system prompt is left.
C28_TrimFitsLimitOrSystemOnly ==
  SessionTrimmed =>
    \/ total_tokens(chat.handed, tokenizer) <= max_history_tokens
    \/ chat.handed = system_prompt(chat.handed)

\* generate trimmed a history with a system prompt down to the limit and
\* kept more than the system prompt.
C28_Witness ==
  /\ chat.op = "generate"
  /\ system_prompt(chat.handed) # <<>>
  /\ Len(chat.handed) > 1
  /\ Len(chat.handed) < Len(Trimmed)
  /\ total_tokens(chat.handed, tokenizer) <= max_history_tokens

\* ------------------------------------------------------------------------
\* Requests of one client on the event loop (g4f_sdk/chat.py, providers.py)
\* ------------------------------------------------------------------------

Tasks == 1..MaxTasks

\* A request: where it is, the next attribute _fetch_from_g4f looks at,
\* whether it refreshed the cache, and what its selection saw and gave.
NewTask ==
  [pc |-> "start", cursor |-> 0, refreshed |-> FALSE, hint |-> NoHint,
   seen |-> {}, outcome |-> "none"]

\* Variant of yields: the event loop is given up after every step.
yields_anywhere(at) == TRUE

\* Where a request gives up the event loop: at `await
\* self._make_api_call(...)`.  _select_provider, _ensure_cache and
\* _fetch_from_g4f are plain functions without an await.
yields(at) == at \in {"await", "done"}

\* The clock reads seconds since the epoch, above any TTL; the gateway's
\* catalogue does not change while the requests run.
TasksInit ==
  /\ g4f \in BOOLEAN
  /\ working \in [Range(CatalogNames) -> BOOLEAN]
  /\ working["helper"]
  /\ provider_cache_ttl \in 0..MaxTTL
  /\ preferred_providers = [isNone |-> TRUE, list |-> <<>>]
  /\ now \in MaxTTL..MaxTime
  /\ providers_info = [n \in {} |-> NoModels]
  /\ last_fetch_time = 0
  /\ call = NoCall
  /\ tasks = [r \in Tasks |-> NewTask]
  /\ running = 0
  /\ ChatIdle /\ LoopIdle /\ RetryIdle /\ HandlerIdle
  /\ HandlersIdle /\ ChatSessionIdle /\ ProfilesIdle
  /\ handler_info = GenericCapabilities

\* Request r takes its next step and keeps the event loop unless it yields.
Step(r, next) ==
  /\ running \in {0, r}
  /\ tasks' = [tasks EXCEPT ![r] = next]
  /\ running' = IF yields(next.pc) THEN 0 ELSE r
  /\ UNCHANGED <<provConfig, working, now, call, chatVars, loopVars,
                 retryVars, handlerVars, handlersVars, chatSessionVars,
                 handler_info, profilesVars>>

\* _select_provider begins: _ensure_cache, and _fetch_from_g4f up to
\* self._providers_info.clear().
task_ensure_cache(r) ==
  /\ tasks[r].pc = "start"
  /\ IF _is_cache_valid(now, last_fetch_time, provider_cache_ttl) \/ ~g4f
     THEN /\ Step(r, [tasks[r] EXCEPT !.pc = "select"])
          /\ UNCHANGED <<providers_info, last_fetch_time>>
     ELSE /\ Step(r, [tasks[r] EXCEPT !.pc = "fetch", !.cursor = 1,
                                      !.refreshed = TRUE])
          /\ providers_info' = [n \in {} |-> NoModels]
          /\ UNCHANGED last_fetch_time

\* One turn of `for provider_name in dir(g4f.Provider)`, and after the
\* last one `self._last_fetch_time = time.time()`.
task_fetch(r) ==
  /\ tasks[r].pc = "fetch"
  /\ LET i == tasks[r].cursor
         n == CatalogNames[i]
     IN  IF i <= Len(CatalogNames)
         THEN /\ Step(r, [tasks[r] EXCEPT !.cursor = i + 1])
              /\ providers_info' =
                   IF IsType(n) /\ working[n]
                   THEN [m \in DOMAIN providers_info \cup {n} |->
                           IF m = n
                           THEN [name |-> n, working |-> TRUE,
                                 models |-> Declared[n]]
                           ELSE providers_info[m]]
                   ELSE providers_info
              /\ UNCHANGED last_fetch_time
         ELSE /\ Step(r, [tasks[r] EXCEPT !.pc = "select"])
              /\ last_fetch_time' = now
              /\ UNCHANGED providers_info

\* The rest of _select_provider, on the cache as it is; then the request
\* awaits its API call.
task_select(r) ==
  /\ tasks[r].pc = "select"
  /\ \E model \in Models, hint \in {NoHint, "P1"} :
       \E o \in _select_provider(providers_info, preferred_providers,
                                 model, hint) :
         Step(r, [tasks[r] EXCEPT !.pc = "await", !.hint = hint,
                                  !.seen = DOMAIN providers_info,
                                  !.outcome = o.outcome])
  /\ UNCHANGED <<providers_info, last_fetch_time>>

\* The API call of request r ends, and with it the request.
task_done(r) ==
  /\ tasks[r].pc = "await"
  /\ Step(r, [tasks[r] EXCEPT !.pc = "done"])
  /\ UNCHANGED <<providers_info, last_fetch_time>>

\* The caller makes its next request.
task_again(r) ==
  /\ tasks[r].pc = "done"
  /\ Step(r, NewTask)
  /\ UNCHANGED <<providers_info, last_fetch_time>>

TasksNext ==
  \/ Tick
  \/ \E r \in Tasks :
       \/ task_ensure_cache(r)
       \/ task_fetch(r)
       \/ task_select(r)
       \/ task_done(r)
       \/ task_again(r)

TasksSpec == TasksInit /\ [][TasksNext]_vars

\* The working provider classes of the catalogue.
Catalogued ==
  IF g4f THEN {n \in Range(CatalogNames) : IsType(n) /\ working[n]} ELSE {}

\* C29: whatever the interleaving of the requests, the cache after any
\* number of refreshes is the one a single refresh leaves, and every
\* selection sees that whole cache: none misses a working provider, and
\* none without a hint fails while the catalogue has a working provider.
C29_RefreshIsAtomic ==
  /\ (running = 0 /\ last_fetch_time > 0) =>
       providers_info = FetchedInfo(providers_info, working)
  /\ \A r \in Tasks :
       tasks[r].pc \in {"await", "done"} =>
         /\ tasks[r].seen = Catalogued
         /\ (tasks[r].hint = NoHint /\ Catalogued # {}) =>
              tasks[r].outcome = "ok"

\* Two requests each rebuilt the cache, the second while the first awaited
\* its API call, and both chose among the working providers.
C29_Witness ==
  /\ \A r \in Tasks :
       /\ tasks[r].pc = "await" /\ tasks[r].refreshed
       /\ tasks[r].outcome = "ok" /\ tasks[r].hint = NoHint
  /\ Cardinality(Catalogued) > 1

\* The backend was called in the last iteration of generate's loop.
BackendCalled ==
  /\ request.op = "generate"
  /\ event.kind # "no iteration"
  /\ event.called

\* C30: the message list handed to the backend in an attempt of generate is
\* the trimmed history: it equals the session history at the time of the
\* call and its measured size is at most the max_length of that attempt.
C30_BackendGetsTrimmedHistory ==
  BackendCalled =>
    LET handed == sent[Len(sent)].messages
    IN  /\ handed = event.history
        /\ _count_length(handed, use_char_limit, Encoding).size
             <= event.max_before

\* ------------------------------------------------------------------------
\* Budgets of ChatHandler.generate and stream_generate
\* ------------------------------------------------------------------------

\* generate returned content.
GenerateSucceeded ==
  pc = "done" /\ result.status = "returned" /\ result.kind = "content"

RequestNext ==
  \/ generate
  \/ generate_attempt
  \/ stream_generate
  \/ stream_attempt

RequestSpec == HandlerInit /\ [][RequestNext]_vars

\* How a backend call ended that is retried after a sleep: with a timeout
\* or an exception that is no oversize error stating a limit (generate
\* logs "sleep" for both).
RetriedEndings == {"sleep", "timeout", "error"}

\* The last iteration called the backend and the call failed that way.
RetryableFailure ==
  /\ request.op \in {"generate", "stream"}
  /\ event.kind \in RetriedEndings
  /\ event.called

\* Every one of the max_retries attempts failed that way.
AllAttemptsFailed ==
  /\ Len(sent) = max_retries
  /\ \A i \in 1..Len(sent) : sent[i].ended \in RetriedEndings

\* C32: in generate and stream_generate a backend call that timed out or
\* failed with another error than an oversize one used up one attempt and
\* was followed by a sleep of 2 s unless it was the last attempt; no sleep
\* follows the last attempt, and after max_retries such failures the
\* request has ended with max_retries - 1 sleeps.
C32_SleepBetweenAttempts ==
  /\ RetryableFailure =>
       /\ attempt = event.attempt + 1
       /\ event.slept <=> event.attempt < max_retries - 1
       /\ event.slept => /\ sleeps # <<>>
                         /\ sleeps[Len(sleeps)] = RetrySleep
                         /\ pc # "done"
       /\ ~event.slept => pc = "done"
  /\ Len(sleeps) <= max_retries - 1
  /\ AllAttemptsFailed =>
       /\ pc = "done"
       /\ Len(sleeps) = max_retries - 1

\* Three timeouts or errors in a row, in generate or in stream_generate.
C32_Witness ==
  /\ AllAttemptsFailed
  /\ RetryableFailure
  /\ sleeps = <<RetrySleep, RetrySleep>>
  /\ sent[1].ended # sent[max_retries].ended

\* ------------------------------------------------------------------------
\* The delays of async_retry (checked under RetrySpec)
\* ------------------------------------------------------------------------

RECURSIVE Power(_, _)
Power(b, k) == IF k = 0 THEN 1 ELSE b * Power(b, k - 1)

\* C33: the sleep after the k-th failed attempt of async_retry (k = 0, 1,
\* ...) lasts delay * backoff_factor^k, the sleeps are taken in that order,
\* every failed attempt but the one that used up the budget is followed by
\* one, and that one by none.
C33_DelaysGrowGeometrically ==
  Entered =>
    /\ \A k \in 0..(Len(sleeps) - 1) :
         sleeps[k + 1] = delay * Power(backoff_factor, k)
    /\ Len(sleeps) = attempt
    /\ Len(sleeps) <= retries
    /\ pc = "wrapper" => Len(sleeps) = Len(calls)
    /\ wres.status # "none" => Len(sleeps) = Len(calls) - 1

\* Four attempts were rate limited: three sleeps, none after the fourth.
C33_Witness ==
  /\ func = "func"
  /\ retries = 3
  /\ calls = <<"RateLimitError", "RateLimitError", "RateLimitError",
               "RateLimitError">>
  /\ wres = Raised(Exc("RateLimitError", 4))
  /\ sleeps = <<2, 4, 8>>

\* The last iteration of generate's loop adapted max_length: it shrank it
\* after a trim failure, or took the limit a provider's error stated.
Adapted ==
  /\ request.op = "generate"
  /\ event.kind \in {"trim_failed", "adapt"}

\* C34: within a generate call max_length is only ever lowered: after an
\* adaptation step it is at most what it was before the step.
C34_MaxLengthOnlyLowered == Adapted => max_length <= event.max_before

\* What holds of the shrinking step: a max_length that is not negative is
\* not raised by it.
ShrinkLowers ==
  (Adapted /\ event.kind = "trim_failed" /\ event.max_before >= 0) =>
    max_length <= event.max_before

\* ------------------------------------------------------------------------
\* The refresh without the gateway library (checked under ProviderSpec)
\* ------------------------------------------------------------------------

\* The last call found the cache expired and so called _fetch_from_g4f.
RefreshAttempted ==
  /\ call.op # "none"
  /\ ~_is_cache_valid(call.at, call.lastBefore, provider_cache_ttl)

\* C35: without the gateway library a refresh changes nothing and raises
\* nothing: the cache and last_fetch_time are what they were before the
\* call, nothing was rebuilt, and get_working_providers returned.
C35_RefreshWithoutLibraryIsNoOp ==
  (~g4f /\ RefreshAttempted) =>
    /\ ~call.refreshed
    /\ DOMAIN providers_info = call.cachedBefore
    /\ last_fetch_time = call.lastBefore
    /\ call.op = "list" => call.outcome = "ok"

\* Without the library, get_working_providers met an expired cache while
\* the clock was past 0 and the catalogue had a working class.
C35_Witness ==
  /\ ~g4f
  /\ RefreshAttempted
  /\ call.op = "list"
  /\ call.at > 0
  /\ \E n \in Range(CatalogNames) : IsType(n) /\ working[n]

\* ------------------------------------------------------------------------
\* Trimming a history that fits (ai/chat.py, g4f_sdk/chat.py)
\* ------------------------------------------------------------------------

\* A ChatHandler with a seeded history next to a ChatSession, each with a
\* small and a large limit.
TrimInit ==
  /\ msgs \in Seeds
  /\ max_length \in {MaxLength, 650}
  /\ use_char_limit \in BOOLEAN
  /\ reduction_factor \in {7, 25}
  /\ trim = NoTrim
  /\ tokenizer \in BOOLEAN
  /\ session_history \in {<<>>, <<SystemMsg>>}
  /\ max_history_tokens \in {2, MaxLength}
  /\ chat = [op |-> "new_chat"]
  /\ ProvIdle /\ LoopIdle /\ RetryIdle /\ HandlerIdle /\ HandlersIdle
  /\ ProfilesIdle /\ TasksIdle
  /\ handler_info = GenericCapabilities

TrimNext ==
  \/ handler_trim_history
  \/ ChatSession_generate
  \/ ChatSession_trim_history

TrimSpec == TrimInit /\ [][TrimNext]_vars

\* The handler's history is measured and is within max_length.
HandlerFits ==
  /\ ~_count_length(msgs, use_char_limit, Encoding).raised
  /\ _count_length(msgs, use_char_limit, Encoding).size <= max_length

\* The session's history is within max_history_tokens.
SessionFits == total_tokens(session_history, tokenizer) <= max_history_tokens

\* C36: _trim_history of a history that fits leaves it as it is, the same
\* messages in the same order, in ChatHandler and in ChatSession, whatever
\* the reduction factor; ChatHandler._trim_history then returns True.
C36_TrimOfFittingIsNoOp ==
  [][ /\ (handler_trim_history /\ HandlerFits) =>
           (msgs' = msgs /\ trim'.result = "True")
      /\ (ChatSession_trim_history /\ SessionFits) =>
           session_history' = session_history
    ]_vars

\* Both were trimmed while they fitted: a handler history of three
\* messages and a session history of a system prompt and an exchange.
C36_Witness ==
  /\ trim.op = "trim" /\ trim.result = "True"
  /\ trim.before = msgs /\ Len(msgs) = 3
  /\ chat.op = "_trim_history"
  /\ chat.before = session_history /\ Len(session_history) = 3
  /\ SessionFits

\* ------------------------------------------------------------------------
\* ChatModule.generate with use_ai_cleaner (g4f_sdk/chat.py, utils.py)
\* ------------------------------------------------------------------------

\* A G4FClient with the library at hand, with or without use_ai_cleaner.
CleanerInit ==
  /\ func = "_make_api_call"
  /\ retries = ChatRetries
  /\ calls = <<>>
  /\ current_delay = 0
  /\ wres = NoResult
  /\ gres = NoResult
  /\ config \in {Config(3, 2, 2, c) : c \in BOOLEAN}
  /\ nesting = 0
  /\ LoopIdle
  /\ g4f = TRUE
  /\ working \in {[n \in Range(CatalogNames) |-> n = "helper"],
                  [n \in Range(CatalogNames) |-> n \in {"P2", "helper"}]}
  /\ provider_cache_ttl = 1
  /\ preferred_providers = [isNone |-> TRUE, list |-> <<>>]
  /\ now = MaxTime
  /\ providers_info = [n \in {} |-> NoModels]
  /\ last_fetch_time = 0
  /\ call = NoCall
  /\ ChatIdle
  /\ HandlerIdle /\ SessionsIdle

\* What ChatModule.generate returns with use_ai_cleaner: the text
\* clean_response_ai made of the response of the n-th backend call.
CleanedValue(n) ==
  [status |-> "returned", kind |-> "cleaned", at |-> n,
   last_exception |-> NoExc]

\* The call of ChatModule.generate at depth n ends with exception e.  At
\* depth 1 the caller gets the APIError; deeper, the clean_response_ai that
\* made the call catches it and returns _clean_response_programmatic(text),
\* which every call above returns in turn.
Failed(n, e) ==
  /\ gres' = IF n = 1 THEN APIError(e) ELSE CleanedValue(Len(calls'))
  /\ pc' = "done"
  /\ UNCHANGED <<attempt, current_delay, sleeps>>

\* ChatModule.generate is entered at depth n, up to its await of
\* _make_api_call: the provider is selected, the wrapper starts.
Entered_generate(n) ==
  LET e == _ensure_cache(g4f, providers_info, last_fetch_time, working,
                         now, provider_cache_ttl)
  IN  \E model \in {"m1"} :
        \E o \in _select_provider(e.info, preferred_providers, model,
                                  NoHint) :
          /\ providers_info' = e.info
          /\ last_fetch_time' = e.last
          /\ nesting' = n
          /\ IF o.outcome = "ok"
             THEN /\ pc' = "call"
                  /\ attempt' = 0
                  /\ current_delay' = delay
                  /\ UNCHANGED <<gres, sleeps>>
             ELSE Failed(n, Exc(o.outcome, 0))

\* client.chat.generate(messages) is called.
cleaner_generate ==
  /\ pc = "idle"
  /\ Entered_generate(1)
  /\ UNCHANGED <<calls, func, retries, wres, config, provConfig, working,
                 now, call, chatVars, handlerVars, sessionVars>>

\* One invocation of _make_api_call by async_retry.wrapper in the innermost
\* ChatModule.generate, and what follows it up to the next await.  A
\* response is returned, or with use_ai_cleaner handed to
\* clean_response_ai, whose temporary ChatSession calls
\* client.chat.generate again; when the interpreter's recursion limit is
\* hit there, clean_response_ai's `except Exception` takes the
\* RecursionError.
cleaner_call ==
  /\ pc = "call"
  /\ \E o \in BackendOutcomes :
       LET kind == _make_api_call(o)
           n    == Len(calls) + 1
       IN  /\ calls' = Append(calls, o)
           /\ IF kind = "ok"
              THEN IF ~config.use_ai_cleaner
                   THEN /\ gres' = Value(n)
                        /\ pc' = "done"
                        /\ UNCHANGED <<attempt, sleeps, current_delay,
                                       nesting, providers_info,
                                       last_fetch_time>>
                   ELSE IF nesting >= RecursionLimit
                   THEN /\ gres' = CleanedValue(n)
                        /\ pc' = "done"
                        /\ UNCHANGED <<attempt, sleeps, current_delay,
                                       nesting, providers_info,
                                       last_fetch_time>>
                   ELSE Entered_generate(nesting + 1)
              ELSE IF IsRetryable(kind) /\ attempt # retries
              THEN /\ sleeps' = Append(sleeps, current_delay)
                   /\ current_delay' = next_delay(current_delay)
                   /\ attempt' = attempt + 1
                   /\ UNCHANGED <<gres, pc, nesting, providers_info,
                                  last_fetch_time>>
              ELSE /\ Failed(nesting, Exc(kind, n))
                   /\ UNCHANGED <<nesting, providers_info, last_fetch_time>>
  /\ UNCHANGED <<func, retries, wres, config, provConfig, working, now,
                 call, chatVars, handlerVars, sessionVars>>

CleanerNext == cleaner_generate \/ cleaner_call

CleanerSpec == CleanerInit /\ [][CleanerNext]_vars

\* Every backend call made so far returned a text.
AllCallsSucceeded == \A i \in 1..Len(calls) : calls[i] = "text"

\* C37: with use_ai_cleaner and every backend call succeeding,
\* ChatModule.generate makes one primary and one cleaning call and ends:
\* never more than two backend calls, and the cleaning call's
\* ChatModule.generate starts no cleaning of its own.
C37_CleaningIsBounded ==
  (config.use_ai_cleaner /\ AllCallsSucceeded) =>
    /\ Len(calls) <= 2
    /\ nesting <= 2
    /\ Len(calls) = 2 => pc = "done"

\* ------------------------------------------------------------------------
\* History after a stream that did not complete (checked under StreamSpec)
\* ------------------------------------------------------------------------

IsPrefix(p, h) == Len(p) <= Len(h) /\ SubSeq(h, 1, Len(p)) = p

\* stream_generate ended without completing the stream: the attempts ran
\* out, or trimming failed.
StreamFailed ==
  /\ request.op = "stream"
  /\ pc = "done"
  /\ result \in {StreamEnd("exhausted"), StreamEnd("stopped")}

\* What stream_generate does to the history: it only adds to the one before
\* the call, and adds nothing when the stream did not complete.
StreamKeepsHistory ==
  /\ request.op = "stream" => IsPrefix(before, msgs)
  /\ StreamFailed => msgs = before

\* C38: when stream_generate ends without completing the stream, the
\* history is the one before the call, also when fragments were yielded;
\* and throughout the call the history before it is a prefix of the
\* session history.
C38_FailedStreamLeavesHistory == StreamKeepsHistory

\* So it is for a handler that measures in characters.
FailedStreamLeavesHistoryInChars == use_char_limit => StreamKeepsHistory

\* ------------------------------------------------------------------------
\* Trim failures of one generate call (checked under GenerateSpec)
\* ------------------------------------------------------------------------

\* A system prompt of 700 characters.
BigSystemMsg == [role |-> "system", content |-> Str(700, 150)]

\* A handler as in GenerateSpec, or one whose system prompt alone is over
\* some of the limits.
LongPromptInit ==
  /\ msgs \in Seeds \cup {<<BigSystemMsg, UserMsg>>}
  /\ max_length \in Lengths
  /\ use_char_limit \in BOOLEAN
  /\ reduction_factor \in {7, 25}
  /\ trim = NoTrim
  /\ ProvIdle
  /\ LoopIdle /\ RetryIdle /\ HandlerIdle
  /\ HandlersIdle /\ ChatSessionIdle /\ ProfilesIdle /\ TasksIdle
  /\ handler_info = GenericCapabilities

LongPromptSpec == LongPromptInit /\ [][GenerateNext]_vars

\* The last iteration of generate's loop met a trim failure.
TrimFailed == request.op = "generate" /\ event.kind = "trim_failed"

\* C39: in generate, an iteration that follows a trim failure meets a trim
\* failure again and calls no backend, so none is called after the first
\* failure; and a call that ends with a trim failure returns None.  Both
\* for context_reduction_factor >= 1 and < 1.
C39_TrimFailurePersists ==
  [][ /\ (TrimFailed /\ pc = "generate") =>
           (event'.kind = "trim_failed" /\ sent' = sent)
      /\ (event'.kind = "trim_failed" /\ pc' = "done") => result' = Absent
    ]_vars

\* With a factor below 1, a second trim failure in a row, on a system
\* prompt that is over the limit by itself, ended the call at the floor.
C39_Witness ==
  /\ TrimFailed
  /\ reduction_factor < 10
  /\ event.attempt = 1
  /\ sent = <<>>
  /\ msgs = <<BigSystemMsg>>
  /\ pc = "done" /\ result = Absent

\* ------------------------------------------------------------------------
\* The configured retry settings (g4f_sdk/config.py, chat.py, utils.py)
\* ------------------------------------------------------------------------

\* A G4FClient constructed with retries, retry_delay and
\* retry_backoff_factor of the caller's choice.
ConfiguredInit ==
  /\ func = "_make_api_call"
  /\ retries = ChatRetries
  /\ calls = <<>>
  /\ current_delay = 0
  /\ wres = NoResult
  /\ gres = NoResult
  /\ config \in {Config(r, d, b, FALSE) :
                   r \in {1, 3, 4}, d \in {1, 2}, b \in {2, 3}}
  /\ nesting = 0
  /\ LoopIdle
  /\ g4f = TRUE
  /\ working \in {[n \in Range(CatalogNames) |-> n = "helper"],
                  [n \in Range(CatalogNames) |-> n \in {"P2", "helper"}]}
  /\ provider_cache_ttl = 1
  /\ preferred_providers = [isNone |-> TRUE, list |-> <<>>]
  /\ now = MaxTime
  /\ providers_info = [n \in {} |-> NoModels]
  /\ last_fetch_time = 0
  /\ call = NoCall
  /\ ChatIdle
  /\ HandlerIdle /\ SessionsIdle

ConfiguredNext == ChatModule_generate \/ wrapper

ConfiguredSpec == ConfiguredInit /\ [][ConfiguredNext]_vars

\* ChatModule.generate ended after backend calls that were all rate
\* limited.
RateLimitedThroughout ==
  /\ GenerateEnded
  /\ calls # <<>>
  /\ \A i \in 1..Len(calls) : calls[i] = "rate limit"

\* C40: for a persistently rate-limited call the number of backend
\* attempts and the delays between them are the configured ones:
\* config.retries retries after the first attempt, the k-th delay being
\* retry_delay * retry_backoff_factor^k.
C40_ConfiguredRetriesUsed ==
  RateLimitedThroughout =>
    /\ Len(calls) = Attempts(config.retries)
    /\ Len(sleeps) = config.retries
    /\ \A k \in 0..(Len(sleeps) - 1) :
         sleeps[k + 1] =
           config.retry_delay * Power(config.retry_backoff_factor, k)

\* What the modules do: the attempts and delays of the decorator's
\* literal retries = 3 and its default delay and backoff_factor.
DecoratorRetriesUsed ==
  RateLimitedThroughout =>
    /\ Len(calls) = Attempts(ChatRetries)
    /\ sleeps = <<delay, delay * backoff_factor,
                  delay * backoff_factor * backoff_factor>>

====
